---- MODULE Spec2Model ----
(***************************************************************************)
(* The bootstrap orchestrator of aghomeautotest: the container entrypoint  *)
(* that provisions a virtual network, installs and configures AdGuardHome  *)
(* and boots a guest under QEMU.  Two snapshots of the entrypoint live in  *)
(* the repository and both are modelled:                                   *)
(*   variant "ts" : src/src/entrypoint.ts                                  *)
(*   variant "js" : src/dist/entrypoint.js (lines 1-403)                   *)
(* Every external command and every HTTP request is one action whose       *)
(* outcome is chosen by the environment.                                   *)
(***************************************************************************)
EXTENDS Integers, Sequences, FiniteSets, TLC

VARIABLES
  variant,      \* which snapshot runs: "ts" or "js"
  cfg,          \* RunnerConfig: the four flags, CLOUDINIT_COMMANDS as found, cloudInit.commands
  pc,           \* position of main() and of the function it is inside
  idx,          \* index of the next command inside createInternalNetwork / restartInterfaces
  loop,         \* the running loop: attempt = loop counter, calls = operations made, waited = ms slept
  probe,        \* waitForAdGuardWeb / waitForAdGuardHome: remaining ports, attempt budget, delay
  adGuardPort,  \* port of baseUrl inside configureAdGuardHome (0 = not yet known)
  cookie,       \* the session cookie held by configureAdGuardHome (<<>> = none)
  thrown,       \* the exception in flight or caught: step, kind, raised by runCommand or not
  qemu,         \* the hypervisor child: "none", "spawned", "failed", "exited"
  proc,         \* the node process: running, or exited with a code
  timer,        \* the keepAlive interval: "off", "armed", "due"
  ev,           \* what the last action did, in order: log lines, spawns, requests, waits
  req,          \* the HTTP request the last action sent (NoReq when it sent none)
  cmd,          \* the command the last action ran, with spawnSync's result (NoCmd when none)
  done,         \* the loop or call the last action finished, with its value (NoDone when none)
  opStep,       \* step of the last external command or HTTP request issued
  hist          \* what has happened so far in the run (read by the properties only)

vars == <<variant, cfg, pc, idx, loop, probe, adGuardPort, cookie, thrown, qemu,
          proc, timer, ev, req, cmd, done, opStep, hist>>

------------------------------------------------------------------------------
(* Bounds of the model *)

\* most Set-Cookie headers on one login response
MaxSetCookie == 2

------------------------------------------------------------------------------
(* Program constants *)

ConfigureProbeAttempts == 30
ReprobeAttempts == 20
DefaultProbeAttempts == 15
ProbeDelayMs == 2000
ConfigureAttempts == 10
ConfigureDelayMs == 3000
LoginAttempts == 10
LoginDelayMs == 2000
DhcpAttempts == 10
DhcpDelayMs == 3000
UnconfiguredPort == 3000
ConfiguredPort == 80

NoStep == 0 - 1
NoCode == 0 - 1

------------------------------------------------------------------------------
(* The environment's answers *)

\* spawnSync's result: error set (the executable could not be spawned), or an
\* exit status; NoCode is status null (the child was killed by a signal)
CmdResults ==
  { [error |-> TRUE,  status |-> NoCode],
    [error |-> FALSE, status |-> 0],
    [error |-> FALSE, status |-> 1],
    [error |-> FALSE, status |-> NoCode] }

\* fetch's result: it throws (transport error, or the body cannot be read), or a
\* response with a status
HttpResults ==
  { [thrown |-> TRUE, status |-> 0] } \cup
  { [thrown |-> FALSE, status |-> s] : s \in {200, 302, 404, 500} }

\* Response.ok
ResponseOk(r) == r.status >= 200 /\ r.status <= 299

\* Set-Cookie header values, as token strings: a name=value pair, or not, with
\* attributes after ";", or not
HeaderValues ==
  { <<"sid=1">>, <<"sid=2", ";", "Path=/">>, <<";", "Path=/">>, <<"x=1", ";">> }

\* the lists of Set-Cookie headers a login response carries
RECURSIVE SeqsUpTo(_, _)
SeqsUpTo(S, n) ==
  IF n = 0 THEN { <<>> }
  ELSE LET shorter == SeqsUpTo(S, n - 1)
       IN  shorter \cup { Append(l, x) : l \in shorter, x \in S }

SetCookieLists == SeqsUpTo(HeaderValues, MaxSetCookie)

\* what the login response offers: the structured accessor (or not), and the
\* Set-Cookie headers it carries
LoginHeaders ==
  { [hasGetSetCookie |-> g, setCookie |-> l] : g \in BOOLEAN, l \in SetCookieLists }

\* String.prototype.split(';')[0]
RECURSIVE SplitFirst(_)
SplitFirst(s) ==
  IF s = <<>> \/ Head(s) = ";" THEN <<>>
  ELSE <<Head(s)>> \o SplitFirst(Tail(s))

\* Headers.get('set-cookie'): null (here <<>>) without the header, else the
\* values joined by ", "
RECURSIVE JoinCookies(_)
JoinCookies(l) ==
  IF l = <<>> THEN <<>>
  ELSE IF Len(l) = 1 THEN Head(l)
  ELSE Head(l) \o <<", ">> \o JoinCookies(Tail(l))

------------------------------------------------------------------------------
(* Pure parts of the program *)

\* runCommand with the exit status never looked at: only a spawn error throws
RunCommandIgnoresStatus(r, allowFail, captureOutput) ==
  LET started == <<"log:command", "spawn">> IN
  IF r.error
  THEN IF allowFail
       THEN [throws |-> FALSE, kind |-> "none", returnsStdout |-> FALSE,
             events |-> Append(started, "log:warnError")]
       ELSE [throws |-> TRUE, kind |-> "SpawnFailure", returnsStdout |-> FALSE,
             events |-> started]
  ELSE [throws |-> FALSE, kind |-> "none", returnsStdout |-> captureOutput,
        events |-> IF r.status # 0 THEN Append(started, "log:warnStatus") ELSE started]

\* runCommand with allowFail not consulted for a spawn error: it always throws
RunCommandThrowsOnError(r, allowFail, captureOutput) ==
  LET started == <<"log:command", "spawn">> IN
  IF r.error
  THEN [throws |-> TRUE, kind |-> "SpawnFailure", returnsStdout |-> FALSE,
        events |-> started]
  ELSE IF r.status # 0 /\ ~allowFail
  THEN [throws |-> TRUE, kind |-> "NonZeroExit", returnsStdout |-> FALSE,
        events |-> started]
  ELSE [throws |-> FALSE, kind |-> "none", returnsStdout |-> captureOutput,
        events |-> IF r.status # 0 THEN Append(started, "log:warnStatus") ELSE started]

\* runCommand writing the command line after the child has run
RunCommandLogsAfter(r, allowFail, captureOutput) ==
  LET started == <<"spawn", "log:command">> IN
  IF r.error
  THEN IF allowFail
       THEN [throws |-> FALSE, kind |-> "none", returnsStdout |-> FALSE,
             events |-> Append(started, "log:warnError")]
       ELSE [throws |-> TRUE, kind |-> "SpawnFailure", returnsStdout |-> FALSE,
             events |-> started]
  ELSE IF r.status # 0 /\ ~allowFail
  THEN [throws |-> TRUE, kind |-> "NonZeroExit", returnsStdout |-> FALSE,
        events |-> started]
  ELSE [throws |-> FALSE, kind |-> "none", returnsStdout |-> captureOutput,
        events |-> IF r.status # 0 THEN Append(started, "log:warnStatus") ELSE started]

\* runCommand with allowFail never consulted: every failure throws
RunCommandNeverTolerates(r, allowFail, captureOutput) ==
  LET started == <<"log:command", "spawn">> IN
  IF r.error
  THEN [throws |-> TRUE, kind |-> "SpawnFailure", returnsStdout |-> FALSE,
        events |-> started]
  ELSE IF r.status # 0
  THEN [throws |-> TRUE, kind |-> "NonZeroExit", returnsStdout |-> FALSE,
        events |-> started]
  ELSE [throws |-> FALSE, kind |-> "none", returnsStdout |-> captureOutput,
        events |-> started]

\* runCommand: the command line is logged, the child is run to completion by
\* spawnSync, and the result is classified.  returnsStdout: the returned string
\* is the child's captured output (otherwise it is '').
RunCommand(r, allowFail, captureOutput) ==
  LET started == <<"log:command", "spawn">> IN
  IF r.error
  THEN IF allowFail
       THEN [throws |-> FALSE, kind |-> "none", returnsStdout |-> FALSE,
             events |-> Append(started, "log:warnError")]
       ELSE [throws |-> TRUE, kind |-> "SpawnFailure", returnsStdout |-> FALSE,
             events |-> started]
  ELSE IF r.status # 0 /\ ~allowFail
  THEN [throws |-> TRUE, kind |-> "NonZeroExit", returnsStdout |-> FALSE,
        events |-> started]
  ELSE [throws |-> FALSE, kind |-> "none", returnsStdout |-> captureOutput,
        events |-> IF r.status # 0 THEN Append(started, "log:warnStatus") ELSE started]

\* a readiness test that takes only a 2xx answer
ProbeReadyOkOnly(r) == ~r.thrown /\ ResponseOk(r)

\* the readiness test of waitForAdGuardHome: 2xx, or 4xx (up but not authorized)
ProbeReady(r) ==
  ~r.thrown /\ (ResponseOk(r) \/ (r.status >= 400 /\ r.status < 500))

\* loginAndGetCookie: the first Set-Cookie value up to its first ';', through
\* getSetCookie() when the stack has it, else through get('set-cookie');
\* <<>> stands for null and for the empty string (both falsy)
LoginAndGetCookie(h) ==
  IF h.hasGetSetCookie /\ Len(h.setCookie) > 0
  THEN SplitFirst(h.setCookie[1])
  ELSE SplitFirst(JoinCookies(h.setCookie))

NewLoop(attempts, delayMs) ==
  [attempts |-> attempts, delayMs |-> delayMs, attempt |-> 1, calls |-> 0,
   delays |-> 0, waited |-> 0]

NoLoop == NewLoop(0, 0)

\* withRetries sleeping after every failed attempt, the last one too
WithRetriesAlwaysWaits(l, fn) ==
  LET called == [l EXCEPT !.calls = @ + 1] IN
  IF ~fn.throws
  THEN [outcome |-> "returned", value |-> fn.value, loop |-> called, events |-> <<>>]
  ELSE [outcome |-> IF l.attempt < l.attempts THEN "retry" ELSE "exhausted",
        value |-> <<>>,
        loop |-> [called EXCEPT !.attempt = @ + 1, !.delays = @ + 1,
                                !.waited = @ + l.delayMs],
        events |-> <<"log:attemptFailed", "wait">>]

\* withRetries giving up at the first failure
WithRetriesGivesUp(l, fn) ==
  LET called == [l EXCEPT !.calls = @ + 1] IN
  IF ~fn.throws
  THEN [outcome |-> "returned", value |-> fn.value, loop |-> called, events |-> <<>>]
  ELSE [outcome |-> "exhausted", value |-> <<>>,
        loop |-> [called EXCEPT !.attempt = @ + 1],
        events |-> <<"log:attemptFailed">>]

\* one pass of the loop of withRetries; fn is what the operation did on this
\* call: it threw, or it returned a value
WithRetries(l, fn) ==
  LET called == [l EXCEPT !.calls = @ + 1] IN
  IF ~fn.throws
  THEN [outcome |-> "returned", value |-> fn.value, loop |-> called, events |-> <<>>]
  ELSE IF l.attempt < l.attempts
  THEN [outcome |-> "retry", value |-> <<>>,
        loop |-> [called EXCEPT !.attempt = @ + 1, !.delays = @ + 1,
                                !.waited = @ + l.delayMs],
        events |-> <<"log:attemptFailed", "wait">>]
  ELSE [outcome |-> "exhausted", value |-> <<>>,
        loop |-> [called EXCEPT !.attempt = @ + 1],
        events |-> <<"log:attemptFailed">>]

\* enableDhcp with the loop bound off by one: an eleventh attempt
EnableDhcpAttemptOneMore(l, r) ==
  LET called == [l EXCEPT !.calls = @ + 1]
      slept  == [called EXCEPT !.attempt = @ + 1, !.delays = @ + 1,
                               !.waited = @ + l.delayMs]
  IN
  IF ~r.thrown /\ ResponseOk(r)
  THEN [outcome |-> "returned", value |-> <<>>, loop |-> called,
        events |-> <<"log:dhcpAttempt", "http:POST set_config", "log:dhcpStatus",
                     "log:dhcpEnabled">>]
  ELSE [outcome |-> IF l.attempt <= l.attempts THEN "retry" ELSE "exhausted",
        value |-> <<>>, loop |-> slept,
        events |-> <<"log:dhcpAttempt", "http:POST set_config",
                     IF r.thrown THEN "log:dhcpNoAnswer" ELSE "log:dhcpStatus",
                     "wait">>]

\* enableDhcp taking any answer for success, whatever its status
EnableDhcpAttemptAcceptsAny(l, r) ==
  LET called == [l EXCEPT !.calls = @ + 1]
      slept  == [called EXCEPT !.attempt = @ + 1, !.delays = @ + 1,
                               !.waited = @ + l.delayMs]
  IN
  IF ~r.thrown
  THEN [outcome |-> "returned", value |-> <<>>, loop |-> called,
        events |-> <<"log:dhcpAttempt", "http:POST set_config", "log:dhcpStatus",
                     "log:dhcpEnabled">>]
  ELSE [outcome |-> IF l.attempt < l.attempts THEN "retry" ELSE "exhausted",
        value |-> <<>>, loop |-> slept,
        events |-> <<"log:dhcpAttempt", "http:POST set_config", "log:dhcpNoAnswer",
                     "wait">>]

\* enableDhcp ending quietly after its last attempt instead of throwing
EnableDhcpAttemptFallsThrough(l, r) ==
  LET called == [l EXCEPT !.calls = @ + 1]
      slept  == [called EXCEPT !.attempt = @ + 1, !.delays = @ + 1,
                               !.waited = @ + l.delayMs]
  IN
  IF (~r.thrown /\ ResponseOk(r)) \/ l.attempt >= l.attempts
  THEN [outcome |-> "returned", value |-> <<>>, loop |-> called,
        events |-> <<"log:dhcpAttempt", "http:POST set_config", "log:dhcpStatus">>]
  ELSE [outcome |-> "retry", value |-> <<>>, loop |-> slept,
        events |-> <<"log:dhcpAttempt", "http:POST set_config",
                     IF r.thrown THEN "log:dhcpNoAnswer" ELSE "log:dhcpStatus",
                     "wait">>]

\* one pass of the loop of enableDhcp: the attempt is logged, the payload is
\* posted, a 2xx response returns, anything else is followed by wait(3000)
EnableDhcpAttempt(l, r) ==
  LET called == [l EXCEPT !.calls = @ + 1]
      slept  == [called EXCEPT !.attempt = @ + 1, !.delays = @ + 1,
                               !.waited = @ + l.delayMs]
  IN
  IF ~r.thrown /\ ResponseOk(r)
  THEN [outcome |-> "returned", value |-> <<>>, loop |-> called,
        events |-> <<"log:dhcpAttempt", "http:POST set_config", "log:dhcpStatus",
                     "log:dhcpEnabled">>]
  ELSE [outcome |-> IF l.attempt < l.attempts THEN "retry" ELSE "exhausted",
        value |-> <<>>, loop |-> slept,
        events |-> <<"log:dhcpAttempt", "http:POST set_config",
                     IF r.thrown THEN "log:dhcpNoAnswer" ELSE "log:dhcpStatus",
                     "wait">>]

\* waitForAdGuardHome with the loop bound off by one: one probe too many
WaitForAdGuardHomeAttemptOneMore(l, r) ==
  LET called == [l EXCEPT !.calls = @ + 1]
      slept  == [called EXCEPT !.attempt = @ + 1, !.delays = @ + 1,
                               !.waited = @ + l.delayMs]
      logged == IF r.thrown THEN "log:probeNoAnswer" ELSE "log:probeStatus"
  IN
  IF ProbeReady(r)
  THEN [outcome |-> "returned", value |-> <<>>, loop |-> called,
        events |-> <<"http:GET /", logged>>]
  ELSE [outcome |-> IF l.attempt <= l.attempts THEN "retry" ELSE "exhausted",
        value |-> <<>>, loop |-> slept, events |-> <<"http:GET /", logged, "wait">>]

\* one pass of the loop of waitForAdGuardHome
WaitForAdGuardHomeAttempt(l, r) ==
  LET called == [l EXCEPT !.calls = @ + 1]
      slept  == [called EXCEPT !.attempt = @ + 1, !.delays = @ + 1,
                               !.waited = @ + l.delayMs]
      logged == IF r.thrown THEN "log:probeNoAnswer" ELSE "log:probeStatus"
  IN
  IF ProbeReady(r)
  THEN [outcome |-> "returned", value |-> <<>>, loop |-> called,
        events |-> <<"http:GET /", logged>>]
  ELSE [outcome |-> IF l.attempt < l.attempts THEN "retry" ELSE "exhausted",
        value |-> <<>>, loop |-> slept, events |-> <<"http:GET /", logged, "wait">>]

\* characters of a first-boot command that the builder or the document's syntax
\* treats specially; every other token of a command is ordinary text
Quote == "\""
Backslash == "\\"
Semicolon == ";"
Space == " "

\* an environment variable: not set, or set to a string
EnvUnset == [set |-> FALSE, value |-> <<>>]

\* defaultCloudInitCommands, with CLOUDINIT_HOSTNAME at its default
DefaultCloudInitCommands ==
  << <<"echo ", Quote, "AdGuardHome test VM is ready", Quote>>,
     <<"hostname test.xyz">>,
     <<"udhcpc -i eth0 -v -x hostname:test.xyz">>,
     <<"LEASE_IP=$(ip -4 addr show dev eth0 | awk ", Quote, "/inet / {print $2}", Quote,
       ")">>,
     <<"CURRENT_HOSTNAME=$(hostname)">>,
     <<"if [ -z ", Quote, "$LEASE_IP", Quote, " ]; then echo ", Quote,
       "DHCP lease for eth0 is empty", Quote, "; exit 1; fi">>,
     <<"if [ ", Quote, "$CURRENT_HOSTNAME", Quote, " != ", Quote, "test.xyz", Quote,
       " ]; then echo ", Quote, "Hostname is $CURRENT_HOSTNAME, expected test.xyz",
       Quote, "; exit 1; fi">>,
     <<"echo ", Quote, "DHCP lease obtained: $LEASE_IP with hostname $CURRENT_HOSTNAME",
       Quote>> >>

\* String.prototype.split(';'): the pieces between the separators, empty ones kept
RECURSIVE SplitCommands(_)
SplitCommands(s) ==
  IF \A i \in 1..Len(s) : s[i] # Semicolon THEN << s >>
  ELSE LET i == CHOOSE k \in 1..Len(s) :
                  s[k] = Semicolon /\ \A j \in 1..(k - 1) : s[j] # Semicolon
       IN  << SubSeq(s, 1, i - 1) >> \o SplitCommands(SubSeq(s, i + 1, Len(s)))

\* String.prototype.trim()
RECURSIVE Trim(_)
Trim(s) ==
  IF s = <<>> THEN s
  ELSE IF Head(s) = Space THEN Trim(Tail(s))
  ELSE IF s[Len(s)] = Space THEN Trim(SubSeq(s, 1, Len(s) - 1))
  ELSE s

RECURSIVE MapTrim(_)
MapTrim(l) == IF l = <<>> THEN <<>> ELSE << Trim(Head(l)) >> \o MapTrim(Tail(l))

\* .filter(Boolean) on strings: the empty ones are dropped
RECURSIVE FilterBoolean(_)
FilterBoolean(l) ==
  IF l = <<>> THEN <<>>
  ELSE (IF Head(l) = <<>> THEN <<>> ELSE << Head(l) >>) \o FilterBoolean(Tail(l))

\* config.cloudInit.commands: CLOUDINIT_COMMANDS split, trimmed and filtered,
\* and defaultCloudInitCommands only when the variable is not set ("??")
CloudInitCommands(env) ==
  IF env.set THEN FilterBoolean(MapTrim(SplitCommands(env.value)))
  ELSE DefaultCloudInitCommands

\* prepareCloudInitImage's commandLines: the configured list, or one echo when
\* the list is empty
CommandLines(commands) ==
  IF Len(commands) > 0 THEN commands
  ELSE << <<"echo ", Quote, "AdGuardHome test VM is ready", Quote>> >>

\* command.replace(/"/g, '\\"'): a backslash goes before every double quote
RECURSIVE EscapeQuotes(_)
EscapeQuotes(c) ==
  IF c = <<>> THEN <<>>
  ELSE (IF Head(c) = Quote THEN <<Backslash, Quote>> ELSE <<Head(c)>>)
       \o EscapeQuotes(Tail(c))

\* the runcmd entries of user-data: for each command the text put between the
\* double quotes of   - ["/bin/sh", "-c", "<text>"]
RECURSIVE RenderedCommands(_)
RenderedCommands(l) ==
  IF l = <<>> THEN <<>>
  ELSE << EscapeQuotes(Head(l)) >> \o RenderedCommands(Tail(l))

\* the commands of createInternalNetwork, in order
\* createInternalNetwork with every command run under allowFail
NetworkCommandsAllTolerated ==
  [i \in 1..11 |->
     [cmd |-> << "ip link add veth", "ip addr add host", "ip link set host up",
                 "ip link set veth-tap up", "ip tuntap add tap", "ip link set tap up",
                 "brctl addbr", "brctl addif host", "brctl addif tap",
                 "ip link set bridge up", "ip addr add bridge" >>[i],
      allowFail |-> TRUE]]

NetworkCommands ==
  << [cmd |-> "ip link add veth",   allowFail |-> TRUE],
     [cmd |-> "ip addr add host",   allowFail |-> TRUE],
     [cmd |-> "ip link set host up", allowFail |-> FALSE],
     [cmd |-> "ip link set veth-tap up", allowFail |-> FALSE],
     [cmd |-> "ip tuntap add tap",  allowFail |-> TRUE],
     [cmd |-> "ip link set tap up", allowFail |-> FALSE],
     [cmd |-> "brctl addbr",        allowFail |-> TRUE],
     [cmd |-> "brctl addif host",   allowFail |-> TRUE],
     [cmd |-> "brctl addif tap",    allowFail |-> TRUE],
     [cmd |-> "ip link set bridge up", allowFail |-> FALSE],
     [cmd |-> "ip addr add bridge", allowFail |-> TRUE] >>

\* the interfaces restartInterfaces cycles, and its commands, in order
BounceTargets == << "host", "veth-tap", "tap", "bridge" >>

\* restartInterfaces bringing each interface up first and down after
BounceCommandUpThenDown(i) ==
  [iface |-> BounceTargets[(i + 1) \div 2],
   action |-> IF i % 2 = 1 THEN "up" ELSE "down",
   allowFail |-> TRUE]

BounceCommand(i) ==
  [iface |-> BounceTargets[(i + 1) \div 2],
   action |-> IF i % 2 = 1 THEN "down" ELSE "up",
   allowFail |-> TRUE]

\* the pipeline step a position of main() belongs to
StepNo(p) ==
  CASE p = "step0" -> 0
    [] p \in {"install", "install2"} -> 1
    [] p = "network" -> 2
    [] p = "bounce" -> 3
    [] p \in {"restart1", "restart1probe", "wait1"} -> 4
    [] p \in {"cfgStart", "cfgProbe", "cfgConfigure", "cfgReprobe", "cfgLogin",
              "cfgInterfaces", "cfgDhcp"} -> 5
    [] p \in {"restart2", "restart2probe", "wait2"} -> 6
    [] p = "portcheck" -> 7
    [] p \in {"qemuPrep", "qemuSpawn"} -> 8
    [] OTHER -> NoStep

NoReq == [path |-> "none", port |-> 0, cookie |-> <<>>]
NoThrow == [step |-> NoStep, kind |-> "none", byCommand |-> FALSE]

\* throw inside main()'s try block: control goes to its catch clause
Throw(kind, byCommand) ==
  /\ pc' = "throwing"
  /\ thrown' = [step |-> StepNo(pc), kind |-> kind, byCommand |-> byCommand]

Running == proc.state = "running"

NoCmd == [name |-> "none", at |-> "none", idx |-> 0, allowFail |-> FALSE,
          result |-> [error |-> FALSE, status |-> 0]]

\* the run's record of the first command that failed while run without
\* allowFail: the step it belongs to
NoteCommand(r, allowFail) ==
  IF ~allowFail /\ (r.error \/ r.status # 0) /\ hist.cmdFailedStep = NoStep
  THEN [hist EXCEPT !.cmdFailedStep = StepNo(pc)]
  ELSE hist

Ran(name, allowFail, r) ==
  [name |-> name, at |-> pc, idx |-> idx, allowFail |-> allowFail, result |-> r]

NoDone == [name |-> "none", outcome |-> "none", value |-> <<>>, fnValue |-> <<>>,
           loop |-> NoLoop]

------------------------------------------------------------------------------
(* The state after module load: config resolved from the environment, main() *)
(* about to run                                                              *)

\* the config object for the flags given and CLOUDINIT_COMMANDS as found
Config(check, install, restart, qemuOn, env) ==
  [checkInternet |-> check, installAdGuard |-> install, restartAdGuard |-> restart,
   enableQemu |-> qemuOn, commandsEnv |-> env, commands |-> CloudInitCommands(env)]

Configs ==
  { Config(a, b, c, d, EnvUnset) : a \in BOOLEAN, b \in BOOLEAN, c \in BOOLEAN,
                                   d \in BOOLEAN }

InitHist ==
  [cmdFailedStep |-> NoStep, firstAnswer |-> 0,
   probeReturned |-> 0, configureSent |-> FALSE, configureOk |-> FALSE,
   reprobeOk |-> FALSE, loginSent |-> FALSE, loginOk |-> FALSE, interfaces |-> "none",
   dhcpSent |-> FALSE, dhcpOk |-> FALSE, qemuCode |-> NoCode,
   seedBuilt |-> FALSE, image |-> "unchecked", mock |-> TRUE, firstRun |-> TRUE]

InitCommon ==
  /\ idx = 1
  /\ probe = [ports |-> <<>>, web |-> FALSE]
  /\ adGuardPort = 0
  /\ cookie = <<>>
  /\ thrown = NoThrow
  /\ qemu = "none"
  /\ proc = [state |-> "running", code |-> 0]
  /\ timer = "off"
  /\ ev = <<>>
  /\ req = NoReq
  /\ cmd = NoCmd
  /\ done = NoDone
  /\ opStep = NoStep
  /\ hist = InitHist

Init ==
  /\ variant \in {"ts", "js"}
  /\ cfg \in Configs
  /\ pc = "step0"
  /\ loop = NoLoop
  /\ InitCommon

------------------------------------------------------------------------------
(* main(): steps 0 to 4 *)

\* Step 0: the connectivity probe; its failure is caught inside the step
Step0 ==
  /\ Running /\ pc = "step0"
  /\ \/ /\ cfg.checkInternet
        /\ \E r \in CmdResults :
             LET rc == RunCommand(r, FALSE, FALSE) IN
             /\ ev' = <<"log:step0">> \o rc.events \o
                      (IF rc.throws THEN <<"log:noInternet">> ELSE <<"log:internetOk">>)
             /\ cmd' = Ran("ping", FALSE, r)
             /\ hist' = NoteCommand(r, FALSE)
        /\ opStep' = 0
     \/ /\ ~cfg.checkInternet
        /\ ev' = <<"log:step0", "log:skip">>
        /\ cmd' = NoCmd
        /\ UNCHANGED <<opStep, hist>>
  /\ pc' = "install"
  /\ req' = NoReq
  /\ done' = NoDone
  /\ UNCHANGED <<variant, cfg, idx, loop, probe, adGuardPort, cookie, thrown, qemu,
                 proc, timer>>

\* installAdGuardHome: the install script
InstallAdGuardHome ==
  /\ Running /\ pc = "install"
  /\ req' = NoReq
  /\ done' = NoDone
  /\ \/ /\ ~cfg.installAdGuard
        /\ ev' = <<"log:skip">>
        /\ cmd' = NoCmd
        /\ pc' = "network"
        /\ UNCHANGED <<opStep, thrown, hist>>
     \/ /\ cfg.installAdGuard
        /\ \E r \in CmdResults :
             LET rc == RunCommand(r, FALSE, FALSE) IN
             /\ cmd' = Ran("install.sh", FALSE, r)
             /\ hist' = NoteCommand(r, FALSE)
             /\ opStep' = 1
             /\ IF rc.throws
                THEN /\ Throw(rc.kind, TRUE)
                     /\ ev' = <<"log:step1">> \o rc.events
                ELSE /\ pc' = IF variant = "js" THEN "install2" ELSE "network"
                     /\ ev' = <<"log:step1">> \o rc.events \o
                              (IF variant = "js" THEN <<"log:forceStart">>
                               ELSE <<"log:installed">>)
                     /\ UNCHANGED thrown
  /\ UNCHANGED <<variant, cfg, idx, loop, probe, adGuardPort, cookie, qemu, proc, timer>>

\* installAdGuardHome, dist snapshot: the forced start after the install
InstallForceStart ==
  /\ Running /\ pc = "install2"
  /\ \E r \in CmdResults :
       LET rc == RunCommand(r, TRUE, FALSE) IN
       /\ cmd' = Ran("AdGuardHome -s start", TRUE, r)
       /\ ev' = rc.events \o <<"log:installed">>
  /\ opStep' = 1
  /\ pc' = "network"
  /\ req' = NoReq
  /\ done' = NoDone
  /\ UNCHANGED <<variant, cfg, idx, loop, probe, adGuardPort, cookie, thrown, qemu,
                 proc, timer, hist>>

\* createInternalNetwork: one command of the step
CreateInternalNetwork ==
  /\ Running /\ pc = "network"
  /\ req' = NoReq
  /\ done' = NoDone
  /\ opStep' = 2
  /\ \E r \in CmdResults :
       LET c    == NetworkCommands[idx]
           rc   == RunCommand(r, c.allowFail, FALSE)
           head == IF idx = 1 THEN <<"log:step2">> ELSE <<>>
           last == idx = Len(NetworkCommands)
       IN
       /\ cmd' = Ran(c.cmd, c.allowFail, r)
       /\ hist' = NoteCommand(r, c.allowFail)
       /\ IF rc.throws
          THEN /\ Throw(rc.kind, TRUE)
               /\ ev' = head \o rc.events
               /\ UNCHANGED idx
          ELSE /\ pc' = IF last THEN "bounce" ELSE "network"
               /\ idx' = IF last THEN 1 ELSE idx + 1
               /\ ev' = head \o rc.events \o (IF last THEN <<"log:bridgeReady">> ELSE <<>>)
               /\ UNCHANGED thrown
  /\ UNCHANGED <<variant, cfg, loop, probe, adGuardPort, cookie, qemu, proc, timer>>

\* restartInterfaces: one command of the step
RestartInterfaces ==
  /\ Running /\ pc = "bounce"
  /\ req' = NoReq
  /\ done' = NoDone
  /\ opStep' = 3
  /\ \E r \in CmdResults :
       LET c    == BounceCommand(idx)
           rc   == RunCommand(r, c.allowFail, FALSE)
           head == IF idx = 1 THEN <<"log:step3">> ELSE <<>>
           last == idx = 2 * Len(BounceTargets)
       IN
       /\ cmd' = Ran("ip link set " \o c.iface \o " " \o c.action, c.allowFail, r)
       /\ IF rc.throws
          THEN /\ Throw(rc.kind, TRUE)
               /\ ev' = head \o rc.events
               /\ UNCHANGED idx
          ELSE /\ pc' = IF last THEN "restart1" ELSE "bounce"
               /\ idx' = IF last THEN 1 ELSE idx + 1
               /\ ev' = head \o rc.events \o (IF last THEN <<"log:bounced">> ELSE <<>>)
               /\ UNCHANGED thrown
  /\ UNCHANGED <<variant, cfg, loop, probe, adGuardPort, cookie, qemu, proc, timer, hist>>

\* main() taking the first restart's continuation after either restart
AfterRestartAlwaysFirst(p) == "wait1"

\* where main() goes on after restartAdGuard at position p
AfterRestart(p) == IF p = "restart1" THEN "wait1" ELSE "wait2"

\* restartAdGuard without the test of config.restartAdGuard: the restart
\* command is run whatever the flag says
RestartAdGuardIgnoresFlag ==
  /\ Running /\ pc \in {"restart1", "restart2"}
  /\ \E r \in CmdResults :
       /\ cmd' = Ran("AdGuardHome -s restart", TRUE, r)
       /\ ev' = RunCommand(r, TRUE, FALSE).events \o <<"log:restarted">>
  /\ opStep' = StepNo(pc)
  /\ pc' = AfterRestart(pc)
  /\ req' = NoReq
  /\ done' = NoDone
  /\ UNCHANGED <<variant, cfg, idx, loop, probe, adGuardPort, cookie, thrown, qemu,
                 proc, timer, hist>>

\* restartAdGuard.  src snapshot: "AdGuardHome -s restart" with allowFail.
\* dist snapshot: "./AdGuardHome" without allowFail, then waitForAdGuardWeb([80]).
RestartAdGuard ==
  /\ Running /\ pc \in {"restart1", "restart2"}
  /\ req' = NoReq
  /\ done' = NoDone
  /\ \/ /\ ~cfg.restartAdGuard
        /\ ev' = <<"log:skip">>
        /\ cmd' = NoCmd
        /\ pc' = AfterRestart(pc)
        /\ UNCHANGED <<opStep, thrown, loop, probe, hist>>
     \/ /\ cfg.restartAdGuard /\ variant = "ts"
        /\ \E r \in CmdResults :
             LET rc == RunCommand(r, TRUE, FALSE) IN
             /\ cmd' = Ran("AdGuardHome -s restart", TRUE, r)
             /\ ev' = rc.events \o <<"log:restarted">>
        /\ opStep' = StepNo(pc)
        /\ pc' = AfterRestart(pc)
        /\ UNCHANGED <<thrown, loop, probe, hist>>
     \/ /\ cfg.restartAdGuard /\ variant = "js"
        /\ opStep' = StepNo(pc)
        /\ \E r \in CmdResults :
             LET rc == RunCommand(r, FALSE, FALSE) IN
             /\ cmd' = Ran("./AdGuardHome", FALSE, r)
             /\ hist' = NoteCommand(r, FALSE)
             /\ IF rc.throws
                THEN /\ Throw(rc.kind, TRUE)
                     /\ ev' = rc.events
                     /\ UNCHANGED <<loop, probe>>
                ELSE /\ pc' = IF pc = "restart1" THEN "restart1probe" ELSE "restart2probe"
                     /\ ev' = rc.events \o <<"log:restarting">>
                     /\ probe' = [ports |-> <<ConfiguredPort>>, web |-> TRUE]
                     /\ loop' = NewLoop(DefaultProbeAttempts, ProbeDelayMs)
                     /\ UNCHANGED thrown
  /\ UNCHANGED <<variant, cfg, idx, adGuardPort, cookie, qemu, proc, timer>>

\* restartAdGuard, dist snapshot: "./AdGuardHome" runs the appliance in the
\* foreground, and spawnSync does not return while the child runs
RestartAdGuardBlocks ==
  /\ Running /\ pc \in {"restart1", "restart2"}
  /\ cfg.restartAdGuard /\ variant = "js"
  /\ ev' = <<"log:command", "spawn">>
  /\ cmd' = [NoCmd EXCEPT !.name = "./AdGuardHome", !.at = pc]
  /\ req' = NoReq
  /\ done' = NoDone
  /\ opStep' = StepNo(pc)
  /\ pc' = "blocked"
  /\ UNCHANGED <<variant, cfg, idx, loop, probe, adGuardPort, cookie, thrown, qemu,
                 proc, timer, hist>>

\* the settle delays of main(): wait(2000) after the first restart, wait(5000)
\* after the second
Wait ==
  /\ Running /\ pc \in {"wait1", "wait2"}
  /\ ev' = <<"wait">>
  /\ pc' = IF pc = "wait1" THEN "cfgStart" ELSE "portcheck"
  /\ req' = NoReq
  /\ done' = NoDone
  /\ cmd' = NoCmd
  /\ UNCHANGED <<variant, cfg, idx, loop, probe, adGuardPort, cookie, thrown, qemu,
                 proc, timer, opStep, hist>>

------------------------------------------------------------------------------
(* main(): step 5, configureAdGuardHome *)

ProbePcs == {"cfgProbe", "cfgReprobe", "restart1probe", "restart2probe"}

\* the port the control-plane calls after the probe go to: fixed URLs in the
\* src snapshot, baseUrl in the dist snapshot
ConfigureUrlPort == IF variant = "ts" THEN UnconfiguredPort ELSE adGuardPort
ControlPort == IF variant = "ts" THEN ConfiguredPort ELSE adGuardPort

\* the run's record of how the control plane has answered: mock stays TRUE
\* while every request to port 80 was answered 200 (a login with a cookie) and
\* every request to another port was refused; firstRun stays TRUE while every
\* request to port 80 made before the first-run configuration was accepted
\* was refused
NoteAnswer(h, port, r, withCookie) ==
  [h EXCEPT !.mock = /\ @
                     /\ IF port = ConfiguredPort
                        THEN ~r.thrown /\ r.status = 200 /\ withCookie
                        ELSE r.thrown,
            !.firstRun = /\ @
                         /\ (port = ConfiguredPort /\ ~h.configureOk) => r.thrown]

\* a control-plane call sent with no Cookie header
ControlRequestNoCookie(path) ==
  [path |-> path, port |-> ControlPort, cookie |-> <<>>]

\* a control-plane call after the login: headers { Cookie: cookie }, the cookie
\* being the parameter configureAdGuardHome passes on
ControlRequest(path) ==
  [path |-> path, port |-> ControlPort, cookie |-> cookie]

\* configureAdGuardHome without the test on the port: it always configures
NeedsConfigureAlways(port) == TRUE

\* configureAdGuardHome's test before the first-run configuration: the dist
\* snapshot configures only when the probe returned port 3000, the src snapshot
\* has no test and always configures
NeedsConfigure(port) == variant = "ts" \/ port = UnconfiguredPort

\* a finished loop: how it ended, the value it returned, the value its
\* operation returned on the last call, and its counters
Finished(name, res, fnValue) ==
  [name |-> name, outcome |-> res.outcome, value |-> res.value, fnValue |-> fnValue,
   loop |-> res.loop]

\* configureAdGuardHome up to its first request: the header line, and the probe
\* the snapshot starts with
ConfigureStart ==
  /\ Running /\ pc = "cfgStart"
  /\ ev' = <<"log:step5">>
  /\ pc' = "cfgProbe"
  /\ probe' = IF variant = "ts"
              THEN [ports |-> <<UnconfiguredPort>>, web |-> FALSE]
              ELSE [ports |-> <<UnconfiguredPort, ConfiguredPort>>, web |-> TRUE]
  /\ loop' = NewLoop(ConfigureProbeAttempts, ProbeDelayMs)
  /\ req' = NoReq
  /\ done' = NoDone
  /\ cmd' = NoCmd
  /\ UNCHANGED <<variant, cfg, idx, adGuardPort, cookie, thrown, qemu, proc, timer,
                 opStep, hist>>

\* waitForAdGuardHome got a ready answer; with waitForAdGuardWeb around it the
\* port is returned to the caller
ProbeAnswered ==
  /\ Running /\ pc \in ProbePcs
  /\ cmd' = NoCmd
  /\ opStep' = StepNo(pc)
  /\ \E r \in HttpResults :
       LET port == Head(probe.ports)
           res  == WaitForAdGuardHomeAttempt(loop, r)
           said == res.events \o (IF probe.web THEN <<"log:portAnswers">> ELSE <<>>)
       IN
       /\ res.outcome = "returned"
       /\ req' = [path |-> "GET /", port |-> port, cookie |-> <<>>]
       /\ done' = Finished("probe", res, <<>>)
       /\ \/ /\ pc = "cfgProbe"
             /\ hist' = [NoteAnswer(hist, port, r, TRUE) EXCEPT
                           !.firstAnswer = port,
                           !.probeReturned = IF probe.web THEN port ELSE 0]
             /\ adGuardPort' = IF probe.web THEN port ELSE adGuardPort
             /\ IF NeedsConfigure(port)
                THEN /\ pc' = "cfgConfigure"
                     /\ ev' = said
                     /\ loop' = NewLoop(ConfigureAttempts, ConfigureDelayMs)
                ELSE /\ pc' = "cfgLogin"
                     /\ ev' = Append(said, "log:configureSkipped")
                     /\ loop' = NewLoop(LoginAttempts, LoginDelayMs)
          \/ /\ pc = "cfgReprobe"
             /\ hist' = [NoteAnswer(hist, port, r, TRUE) EXCEPT !.reprobeOk = TRUE]
             /\ adGuardPort' = port
             /\ pc' = "cfgLogin"
             /\ ev' = said
             /\ loop' = NewLoop(LoginAttempts, LoginDelayMs)
          \/ /\ pc \in {"restart1probe", "restart2probe"}
             /\ pc' = IF pc = "restart1probe" THEN "wait1" ELSE "wait2"
             /\ ev' = said
             /\ loop' = NoLoop
             /\ hist' = NoteAnswer(hist, port, r, TRUE)
             /\ UNCHANGED adGuardPort
  /\ UNCHANGED <<variant, cfg, idx, probe, cookie, thrown, qemu, proc, timer>>

\* waitForAdGuardHome got no ready answer and attempts remain: it sleeps
ProbeRetry ==
  /\ Running /\ pc \in ProbePcs
  /\ \E r \in HttpResults :
       LET res == WaitForAdGuardHomeAttempt(loop, r) IN
       /\ res.outcome = "retry"
       /\ req' = [path |-> "GET /", port |-> Head(probe.ports), cookie |-> <<>>]
       /\ ev' = res.events
       /\ loop' = res.loop
       /\ hist' = NoteAnswer(hist, Head(probe.ports), r, TRUE)
  /\ cmd' = NoCmd
  /\ done' = NoDone
  /\ opStep' = StepNo(pc)
  /\ UNCHANGED <<variant, cfg, pc, idx, probe, adGuardPort, cookie, thrown, qemu,
                 proc, timer>>

\* waitForAdGuardHome used its last attempt: it throws.  waitForAdGuardWeb
\* catches that and goes on to the next port, and throws after the last one.
ProbeTimedOut ==
  /\ Running /\ pc \in ProbePcs
  /\ cmd' = NoCmd
  /\ opStep' = StepNo(pc)
  /\ \E r \in HttpResults :
       LET res == WaitForAdGuardHomeAttempt(loop, r) IN
       /\ res.outcome = "exhausted"
       /\ req' = [path |-> "GET /", port |-> Head(probe.ports), cookie |-> <<>>]
       /\ done' = Finished("probe", res, <<>>)
       /\ hist' = NoteAnswer(hist, Head(probe.ports), r, TRUE)
       /\ \/ /\ ~probe.web
             /\ Throw("PollTimeout", FALSE)
             /\ ev' = res.events
             /\ loop' = res.loop
             /\ UNCHANGED probe
          \/ /\ probe.web /\ Len(probe.ports) > 1
             /\ ev' = Append(res.events, "log:portNoAnswer")
             /\ probe' = [probe EXCEPT !.ports = Tail(@)]
             /\ loop' = NewLoop(loop.attempts, loop.delayMs)
             /\ UNCHANGED <<pc, thrown>>
          \/ /\ probe.web /\ Len(probe.ports) = 1
             /\ Throw("ControlPlaneUnreachable", FALSE)
             /\ ev' = Append(res.events, "log:portNoAnswer")
             /\ loop' = res.loop
             /\ UNCHANGED probe
  /\ UNCHANGED <<variant, cfg, idx, adGuardPort, cookie, qemu, proc, timer>>

\* the first-run configuration request, under withRetries(.., 10, 3000, ..)
ConfigurePost ==
  /\ Running /\ pc = "cfgConfigure"
  /\ cmd' = NoCmd
  /\ opStep' = 5
  /\ req' = [path |-> "POST /control/install/configure", port |-> ConfigureUrlPort,
             cookie |-> <<>>]
  /\ \E r \in HttpResults :
       LET fn  == [throws |-> r.thrown \/ ~ResponseOk(r), value |-> <<>>]
           res == WithRetries(loop, fn)
           answered2xx == ~r.thrown /\ r.status \in 200..299
           noted == [NoteAnswer(hist, ConfigureUrlPort, r, TRUE) EXCEPT
                       !.configureSent = TRUE, !.configureOk = answered2xx]
       IN
       /\ ev' = <<"http:POST configure">> \o res.events
       /\ \/ /\ res.outcome = "returned"
             /\ hist' = noted
             /\ done' = Finished("configure", res, fn.value)
             /\ IF variant = "ts"
                THEN /\ pc' = "cfgLogin"
                     /\ loop' = NewLoop(LoginAttempts, LoginDelayMs)
                     /\ UNCHANGED probe
                ELSE /\ pc' = "cfgReprobe"
                     /\ probe' = [ports |-> <<ConfiguredPort>>, web |-> TRUE]
                     /\ loop' = NewLoop(ReprobeAttempts, ProbeDelayMs)
             /\ UNCHANGED thrown
          \/ /\ res.outcome = "retry"
             /\ hist' = noted
             /\ done' = NoDone
             /\ loop' = res.loop
             /\ UNCHANGED <<pc, probe, thrown>>
          \/ /\ res.outcome = "exhausted"
             /\ hist' = noted
             /\ done' = Finished("configure", res, fn.value)
             /\ Throw("RetriesExhausted", FALSE)
             /\ loop' = res.loop
             /\ UNCHANGED probe
  /\ UNCHANGED <<variant, cfg, idx, adGuardPort, cookie, qemu, proc, timer>>

\* the login request, under withRetries(.., 10, 2000, ..): a response without a
\* cookie makes the operation throw
Login ==
  /\ Running /\ pc = "cfgLogin"
  /\ cmd' = NoCmd
  /\ opStep' = 5
  /\ req' = [path |-> "POST /control/login", port |-> ControlPort, cookie |-> <<>>]
  /\ \E r \in HttpResults, h \in LoginHeaders :
       LET sessionCookie == IF r.thrown THEN <<>> ELSE LoginAndGetCookie(h)
           fn  == [throws |-> sessionCookie = <<>>, value |-> sessionCookie]
           res == WithRetries(loop, fn)
       IN
       /\ hist' = [NoteAnswer(hist, ControlPort, r, sessionCookie # <<>>) EXCEPT
                     !.loginSent = TRUE, !.loginOk = sessionCookie # <<>>]
       /\ \/ /\ res.outcome = "returned"
             /\ done' = Finished("login", res, fn.value)
             /\ cookie' = res.value
             /\ ev' = <<"http:POST login", "log:cookie">>
             /\ pc' = "cfgInterfaces"
             /\ loop' = NoLoop
             /\ UNCHANGED thrown
          \/ /\ res.outcome = "retry"
             /\ done' = NoDone
             /\ ev' = <<"http:POST login">> \o res.events
             /\ loop' = res.loop
             /\ UNCHANGED <<pc, cookie, thrown>>
          \/ /\ res.outcome = "exhausted"
             /\ done' = Finished("login", res, fn.value)
             /\ ev' = <<"http:POST login">> \o res.events
             /\ Throw("AuthenticationFailed", FALSE)
             /\ loop' = res.loop
             /\ UNCHANGED cookie
  /\ UNCHANGED <<variant, cfg, idx, probe, adGuardPort, qemu, proc, timer>>

\* fetchDhcpInterfaces: the request is not guarded, a throw leaves the function
FetchDhcpInterfaces ==
  /\ Running /\ pc = "cfgInterfaces"
  /\ cmd' = NoCmd
  /\ done' = NoDone
  /\ opStep' = 5
  /\ req' = ControlRequest("GET /control/dhcp/interfaces")
  /\ \E r \in HttpResults :
       IF r.thrown
       THEN /\ Throw("TransportError", FALSE)
            /\ ev' = <<"log:checkInterfaces", "http:GET interfaces">>
            /\ hist' = [NoteAnswer(hist, ControlPort, r, TRUE) EXCEPT
                          !.interfaces = "thrown"]
            /\ UNCHANGED loop
       ELSE /\ pc' = "cfgDhcp"
            /\ ev' = <<"log:checkInterfaces", "http:GET interfaces", "log:status",
                       "log:body">>
            /\ hist' = [NoteAnswer(hist, ControlPort, r, TRUE) EXCEPT
                          !.interfaces = IF ResponseOk(r) THEN "ok" ELSE "status"]
            /\ loop' = NewLoop(DhcpAttempts, DhcpDelayMs)
            /\ UNCHANGED thrown
  /\ UNCHANGED <<variant, cfg, idx, probe, adGuardPort, cookie, qemu, proc, timer>>

\* enableDhcp: one pass of its loop, and the throw after the last pass
EnableDhcp ==
  /\ Running /\ pc = "cfgDhcp"
  /\ cmd' = NoCmd
  /\ opStep' = 5
  /\ req' = ControlRequest("POST /control/dhcp/set_config")
  /\ \E r \in HttpResults :
       LET res  == EnableDhcpAttempt(loop, r)
           head == IF loop.attempt = 1 THEN <<"log:step6">> ELSE <<>>
           answered2xx == ~r.thrown /\ r.status \in 200..299
           noted == [NoteAnswer(hist, ControlPort, r, TRUE) EXCEPT
                       !.dhcpSent = TRUE, !.dhcpOk = answered2xx]
       IN
       /\ ev' = head \o res.events
       /\ \/ /\ res.outcome = "returned"
             /\ hist' = noted
             /\ done' = Finished("dhcp", res, <<>>)
             /\ pc' = "restart2"
             /\ loop' = NoLoop
             /\ cookie' = <<>>
             /\ adGuardPort' = 0
             /\ UNCHANGED thrown
          \/ /\ res.outcome = "retry"
             /\ hist' = noted
             /\ done' = NoDone
             /\ loop' = res.loop
             /\ UNCHANGED <<pc, cookie, adGuardPort, thrown>>
          \/ /\ res.outcome = "exhausted"
             /\ hist' = noted
             /\ done' = Finished("dhcp", res, <<>>)
             /\ Throw("DhcpActivationFailed", FALSE)
             /\ loop' = res.loop
             /\ UNCHANGED <<cookie, adGuardPort>>
  /\ UNCHANGED <<variant, cfg, idx, probe, qemu, proc, timer>>

------------------------------------------------------------------------------
(* main(): steps 7 and 8, and what follows main() *)

\* checkDhcpPort: "ss -ulnp" with allowFail and captureOutput; has67: the
\* child's output contains ":67"
CheckDhcpPort ==
  /\ Running /\ pc = "portcheck"
  /\ \E r \in CmdResults, has67 \in BOOLEAN :
       LET rc == RunCommand(r, TRUE, TRUE) IN
       /\ cmd' = Ran("ss -ulnp", TRUE, r)
       /\ IF rc.throws
          THEN /\ Throw(rc.kind, TRUE)
               /\ ev' = rc.events
          ELSE /\ pc' = "qemuPrep"
               /\ ev' = Append(rc.events, IF rc.returnsStdout /\ has67
                                          THEN "log:dhcpListening"
                                          ELSE "log:dhcpNotListening")
               /\ UNCHANGED thrown
  /\ opStep' = 7
  /\ req' = NoReq
  /\ done' = NoDone
  /\ UNCHANGED <<variant, cfg, idx, loop, probe, adGuardPort, cookie, qemu,
                 proc, timer, hist>>

\* startQemu up to the end of prepareCloudInitImage: the three documents are
\* written and cloud-localds packs them
PrepareCloudInitImage ==
  /\ Running /\ pc = "qemuPrep"
  /\ req' = NoReq
  /\ done' = NoDone
  /\ \/ /\ ~cfg.enableQemu
        /\ ev' = <<"log:skip">>
        /\ cmd' = NoCmd
        /\ pc' = "returned"
        /\ UNCHANGED <<opStep, thrown, hist>>
     \/ /\ cfg.enableQemu
        /\ opStep' = 8
        /\ \E r \in CmdResults :
             LET rc == RunCommand(r, FALSE, FALSE) IN
             /\ cmd' = Ran("cloud-localds", FALSE, r)
             /\ hist' = [NoteCommand(r, FALSE) EXCEPT
                           !.seedBuilt = ~r.error /\ r.status = 0]
             /\ IF rc.throws
                THEN /\ Throw(rc.kind, TRUE)
                     /\ ev' = <<"log:step7">> \o rc.events
                ELSE /\ pc' = "qemuSpawn"
                     /\ ev' = <<"log:step7">> \o rc.events \o <<"log:seedCreated">>
                     /\ UNCHANGED thrown
  /\ UNCHANGED <<variant, cfg, idx, loop, probe, adGuardPort, cookie, qemu, proc, timer>>

\* startQemu with the image check left out
ImageCheckSkipped(imageExists) == TRUE

\* startQemu's test of the guest image: existsSync(config.cloudInit.imagePath)
ImageCheckPasses(imageExists) == imageExists

\* what child_process.spawn can do: start the child; fail with an 'error'
\* event emitted later (ENOENT, EACCES, ...); throw at once (any other errno)
SpawnOutcomes == {"spawned", "errorEvent", "throws"}

\* startQemu with a throw after the hypervisor has been spawned: the child
\* runs and control goes to main()'s catch clause
SpawnQemuThenThrows ==
  /\ Running /\ pc = "qemuSpawn"
  /\ qemu' = "spawned"
  /\ Throw("SpawnThrew", FALSE)
  /\ ev' = <<"spawn:qemu">>
  /\ opStep' = 8
  /\ req' = NoReq
  /\ done' = NoDone
  /\ cmd' = NoCmd
  /\ UNCHANGED <<variant, cfg, idx, loop, probe, adGuardPort, cookie, proc, timer,
                 hist>>

\* startQemu from the image check on: existsSync, spawn, and the 'exit'
\* listener; main() returns after it
SpawnQemu ==
  /\ Running /\ pc = "qemuSpawn"
  /\ req' = NoReq
  /\ done' = NoDone
  /\ cmd' = NoCmd
  /\ \E imageExists \in BOOLEAN, o \in SpawnOutcomes :
       /\ hist' = [hist EXCEPT !.image = IF imageExists THEN "present" ELSE "missing"]
       /\ \/ /\ ~ImageCheckPasses(imageExists)
             /\ Throw("MissingGuestImage", FALSE)
             /\ ev' = <<>>
             /\ UNCHANGED <<qemu, opStep>>
          \/ /\ ImageCheckPasses(imageExists) /\ o = "throws"
             /\ Throw("SpawnThrew", FALSE)
             /\ ev' = <<"spawn:qemu">>
             /\ opStep' = 8
             /\ UNCHANGED qemu
          \/ /\ ImageCheckPasses(imageExists) /\ o # "throws"
             /\ qemu' = IF o = "spawned" THEN "spawned" ELSE "failed"
             /\ ev' = <<"spawn:qemu">>
             /\ opStep' = 8
             /\ pc' = "returned"
             /\ UNCHANGED thrown
  /\ UNCHANGED <<variant, cfg, idx, loop, probe, adGuardPort, cookie, proc, timer>>

\* the hypervisor could not be spawned: the child emits 'error', nothing
\* listens for it, and node ends the process with an uncaught exception
QemuSpawnError ==
  /\ Running /\ qemu = "failed"
  /\ proc' = [state |-> "exited", code |-> 1]
  /\ ev' = <<"uncaughtException">>
  /\ req' = NoReq
  /\ done' = NoDone
  /\ cmd' = NoCmd
  /\ UNCHANGED <<variant, cfg, pc, idx, loop, probe, adGuardPort, cookie, thrown, qemu,
                 timer, opStep, hist>>

\* the codes the 'exit' event can carry: an exit status, or null (here NoCode)
\* when a signal ended the child
QemuExitCodes == {0, 1, 2, NoCode}

\* the 'exit' listener of startQemu: process.exit(code ?? 0)
QemuExit ==
  /\ Running /\ qemu = "spawned"
  /\ \E code \in QemuExitCodes :
       /\ proc' = [state |-> "exited", code |-> IF code = NoCode THEN 0 ELSE code]
       /\ hist' = [hist EXCEPT !.qemuCode = code]
  /\ qemu' = "exited"
  /\ ev' = <<"log:qemuExit", "process.exit">>
  /\ req' = NoReq
  /\ done' = NoDone
  /\ cmd' = NoCmd
  /\ UNCHANGED <<variant, cfg, pc, idx, loop, probe, adGuardPort, cookie, thrown,
                 timer, opStep>>

\* main() returned, no child and no timer is left: node ends with code 0
EventLoopDrain ==
  /\ Running /\ pc = "returned" /\ qemu = "none" /\ timer = "off"
  /\ proc' = [state |-> "exited", code |-> 0]
  /\ ev' = <<>>
  /\ req' = NoReq
  /\ done' = NoDone
  /\ cmd' = NoCmd
  /\ UNCHANGED <<variant, cfg, pc, idx, loop, probe, adGuardPort, cookie, thrown, qemu,
                 timer, opStep, hist>>

\* a catch clause that logs and lets the process end with a failure code
CatchAndExit ==
  /\ Running /\ pc = "throwing"
  /\ ev' = <<"log:error", "process.exit">>
  /\ proc' = [state |-> "exited", code |-> 1]
  /\ req' = NoReq
  /\ done' = NoDone
  /\ cmd' = NoCmd
  /\ UNCHANGED <<variant, cfg, pc, idx, loop, probe, adGuardPort, cookie, thrown, qemu,
                 timer, opStep, hist>>

\* the catch clause of main(): the error is logged and keepAlive() arms the
\* interval
Catch ==
  /\ Running /\ pc = "throwing"
  /\ ev' = <<"log:error", "log:keepAlive", "setInterval">>
  /\ timer' = "armed"
  /\ pc' = "contained"
  /\ req' = NoReq
  /\ done' = NoDone
  /\ cmd' = NoCmd
  /\ UNCHANGED <<variant, cfg, idx, loop, probe, adGuardPort, cookie, thrown, qemu,
                 proc, opStep, hist>>

\* 60 s pass: the interval is due
TimerElapse ==
  /\ Running /\ timer = "armed"
  /\ timer' = "due"
  /\ ev' = <<>>
  /\ req' = NoReq
  /\ done' = NoDone
  /\ cmd' = NoCmd
  /\ UNCHANGED <<variant, cfg, pc, idx, loop, probe, adGuardPort, cookie, thrown, qemu,
                 proc, opStep, hist>>

\* the interval's callback: the liveness line; the interval stays set
KeepAliveTick ==
  /\ Running /\ timer = "due"
  /\ timer' = "armed"
  /\ ev' = <<"log:alive">>
  /\ req' = NoReq
  /\ done' = NoDone
  /\ cmd' = NoCmd
  /\ UNCHANGED <<variant, cfg, pc, idx, loop, probe, adGuardPort, cookie, thrown, qemu,
                 proc, opStep, hist>>

------------------------------------------------------------------------------
(* The program *)

\* the steps of main() and of the functions it awaits
Pipeline ==
  \/ Step0
  \/ InstallAdGuardHome
  \/ InstallForceStart
  \/ CreateInternalNetwork
  \/ RestartInterfaces
  \/ RestartAdGuard
  \/ RestartAdGuardBlocks
  \/ Wait
  \/ ConfigureStart
  \/ ProbeAnswered
  \/ ProbeRetry
  \/ ProbeTimedOut
  \/ ConfigurePost
  \/ Login
  \/ FetchDhcpInterfaces
  \/ EnableDhcp
  \/ CheckDhcpPort
  \/ PrepareCloudInitImage
  \/ SpawnQemu

Next ==
  \/ Pipeline
  \/ Catch
  \/ TimerElapse
  \/ KeepAliveTick
  \/ QemuSpawnError
  \/ QemuExit
  \/ EventLoopDrain

Spec == Init /\ [][Next]_vars

\* withRetries on its own: called with any attempt budget from 1 up and either
\* delay the program uses, around an operation that throws or returns a value
\* on each call
MaxRetryAttempts == 8

RetryInit ==
  /\ variant = "ts"
  /\ cfg = Config(TRUE, TRUE, TRUE, TRUE, EnvUnset)
  /\ pc = "withRetries"
  /\ loop \in { NewLoop(n, d) : n \in 1..MaxRetryAttempts,
                                d \in {LoginDelayMs, ConfigureDelayMs} }
  /\ InitCommon

WithRetriesCall ==
  /\ Running /\ pc = "withRetries"
  /\ \E fn \in { [throws |-> TRUE, value |-> <<>>] } \cup
               { [throws |-> FALSE, value |-> v] : v \in {<<"sid=1">>, <<"sid=2">>} } :
       LET res == WithRetries(loop, fn) IN
       /\ loop' = res.loop
       /\ ev' = <<"call">> \o res.events
       /\ \/ /\ res.outcome = "returned"
             /\ pc' = "retriesReturned"
             /\ done' = Finished("withRetries", res, fn.value)
             /\ UNCHANGED thrown
          \/ /\ res.outcome = "retry"
             /\ done' = NoDone
             /\ UNCHANGED <<pc, thrown>>
          \/ /\ res.outcome = "exhausted"
             /\ pc' = "retriesThrew"
             /\ done' = Finished("withRetries", res, fn.value)
             /\ thrown' = [step |-> NoStep, kind |-> "RetriesExhausted", byCommand |-> FALSE]
  /\ req' = NoReq
  /\ cmd' = NoCmd
  /\ UNCHANGED <<variant, cfg, idx, probe, adGuardPort, cookie, qemu, proc, timer,
                 opStep, hist>>

RetrySpec == RetryInit /\ [][WithRetriesCall]_vars

\* waitForAdGuardHome on its own: called with any attempt budget from 1 up,
\* against a server that throws or answers with any class of status, the
\* edges of each class included; done records each pass and the response it
\* got (fnValue)
MaxPollAttempts == 5

PollResults ==
  { [thrown |-> TRUE, status |-> 0] } \cup
  { [thrown |-> FALSE, status |-> st] :
      st \in {200, 204, 299, 300, 302, 399, 400, 404, 499, 500, 503, 599} }

PollInit ==
  /\ variant = "ts"
  /\ cfg = Config(TRUE, TRUE, TRUE, TRUE, EnvUnset)
  /\ pc = "waitForAdGuardHome"
  /\ loop \in { NewLoop(n, ProbeDelayMs) : n \in 1..MaxPollAttempts }
  /\ InitCommon

WaitForAdGuardHomeCall ==
  /\ Running /\ pc = "waitForAdGuardHome"
  /\ \E r \in PollResults :
       LET res == WaitForAdGuardHomeAttempt(loop, r) IN
       /\ loop' = res.loop
       /\ ev' = res.events
       /\ done' = Finished("probe", res, r)
       /\ \/ /\ res.outcome = "returned"
             /\ pc' = "pollReturned"
             /\ UNCHANGED thrown
          \/ /\ res.outcome = "retry"
             /\ UNCHANGED <<pc, thrown>>
          \/ /\ res.outcome = "exhausted"
             /\ pc' = "pollThrew"
             /\ thrown' = [step |-> NoStep, kind |-> "PollTimeout", byCommand |-> FALSE]
  /\ req' = [path |-> "GET /", port |-> UnconfiguredPort, cookie |-> <<>>]
  /\ cmd' = NoCmd
  /\ UNCHANGED <<variant, cfg, idx, probe, adGuardPort, cookie, qemu, proc, timer,
                 opStep, hist>>

PollSpec == PollInit /\ [][WaitForAdGuardHomeCall]_vars

\* prepareCloudInitImage's rendering of the first-boot commands on its own,
\* for CLOUDINIT_COMMANDS not set or set to any string of at most MaxEnvLen
\* characters
MaxEnvLen == 3

EnvChars == {"a", Quote, Backslash, Semicolon, Space}

EnvValues ==
  { EnvUnset } \cup { [set |-> TRUE, value |-> v] : v \in SeqsUpTo(EnvChars, MaxEnvLen) }

BuilderInit ==
  /\ variant \in {"ts", "js"}
  /\ cfg \in { Config(TRUE, TRUE, TRUE, TRUE, e) : e \in EnvValues }
  /\ pc = "prepareCloudInitImage"
  /\ loop = NoLoop
  /\ InitCommon

\* prepareCloudInitImage, whole: network-config, user-data and meta-data are
\* written, then cloud-localds packs them
PrepareCloudInitImageCall ==
  /\ Running /\ pc = "prepareCloudInitImage"
  /\ done' = [NoDone EXCEPT !.name = "runcmd", !.outcome = "written",
                            !.value = RenderedCommands(CommandLines(cfg.commands))]
  /\ req' = NoReq
  /\ opStep' = 8
  /\ \E r \in CmdResults :
       LET rc == RunCommand(r, FALSE, FALSE) IN
       /\ cmd' = Ran("cloud-localds", FALSE, r)
       /\ hist' = [NoteCommand(r, FALSE) EXCEPT !.seedBuilt = ~r.error /\ r.status = 0]
       /\ IF rc.throws
          THEN /\ pc' = "throwing"
               /\ thrown' = [step |-> 8, kind |-> rc.kind, byCommand |-> TRUE]
               /\ ev' = <<"write:network-config", "write:user-data", "write:meta-data">>
                          \o rc.events
          ELSE /\ pc' = "seedImage"
               /\ ev' = <<"write:network-config", "write:user-data", "write:meta-data">>
                          \o rc.events \o <<"log:seedCreated">>
               /\ UNCHANGED thrown
  /\ UNCHANGED <<variant, cfg, idx, loop, probe, adGuardPort, cookie, qemu, proc, timer>>

BuilderSpec == BuilderInit /\ [][PrepareCloudInitImageCall]_vars

-------------------------------------------------------------------------------
(* The shell-script entrypoint, from its Step 6 on                           *)

ShellDhcpAttempts == 10

\* what curl -w "%{http_code}" prints: the status of the response, or 000 when
\* there was none
ShellHttpCodes == {"000", "200", "302", "404", "500"}

ShellInit ==
  /\ variant = "sh"
  /\ cfg = Config(TRUE, TRUE, TRUE, TRUE, EnvUnset)
  /\ pc = "shDhcp"
  /\ loop = NewLoop(ShellDhcpAttempts, 0)
  /\ InitCommon

\* one pass of "for attempt in {1..10}": the attempt is logged, curl posts
\* set_config (|| true), and the status is compared with "000": equal, DHCP is
\* reported enabled and the loop left; not equal, the inner test of the same
\* status against "000" fails too, so nothing is logged and nothing slept
ShellEnableDhcp ==
  /\ Running /\ pc = "shDhcp"
  /\ \E code \in ShellHttpCodes :
       LET head == IF loop.attempt = 1 THEN <<"log:step6">> ELSE <<>> IN
       /\ req' = [path |-> "POST /control/dhcp/set_config", port |-> ConfiguredPort,
                  cookie |-> cookie]
       /\ done' = [NoDone EXCEPT !.name = "curl", !.outcome = "returned",
                                 !.value = <<code>>]
       /\ hist' = [hist EXCEPT !.dhcpSent = TRUE,
                               !.dhcpOk = @ \/ code = "200"]
       /\ IF code = "000"
          THEN /\ ev' = head \o <<"log:dhcpAttempt", "curl", "log:dhcpEnabled">>
               /\ pc' = "shRestart"
               /\ loop' = [loop EXCEPT !.calls = @ + 1]
          ELSE /\ ev' = head \o <<"log:dhcpAttempt", "curl">>
               /\ pc' = IF loop.attempt = loop.attempts THEN "shRestart" ELSE "shDhcp"
               /\ loop' = [loop EXCEPT !.calls = @ + 1,
                                       !.attempt = IF @ = loop.attempts THEN @ ELSE @ + 1]
  /\ cmd' = NoCmd
  /\ opStep' = 6
  /\ UNCHANGED <<variant, cfg, idx, probe, adGuardPort, cookie, thrown, qemu, proc,
                 timer>>

\* "AdGuardHome -s restart" under set -e: a failure fires the ERR trap, which
\* prints its line and sleeps for good
ShellRestartAdGuard ==
  /\ Running /\ pc = "shRestart"
  /\ \E r \in CmdResults :
       /\ cmd' = Ran("AdGuardHome -s restart", FALSE, r)
       /\ hist' = NoteCommand(r, FALSE)
       /\ IF r.error \/ r.status # 0
          THEN /\ pc' = "shTrapped"
               /\ ev' = <<"spawn", "echo:trap", "sleep:infinity">>
          ELSE /\ pc' = "shSleep"
               /\ ev' = <<"spawn">>
  /\ req' = NoReq
  /\ done' = NoDone
  /\ opStep' = 6
  /\ UNCHANGED <<variant, cfg, idx, loop, probe, adGuardPort, cookie, thrown, qemu,
                 proc, timer>>

\* sleep 5
ShellSleep ==
  /\ Running /\ pc = "shSleep"
  /\ pc' = "shPortcheck"
  /\ ev' = <<"sleep:5">>
  /\ req' = NoReq
  /\ done' = NoDone
  /\ cmd' = NoCmd
  /\ UNCHANGED <<variant, cfg, idx, loop, probe, adGuardPort, cookie, thrown, qemu,
                 proc, timer, opStep, hist>>

\* if ! ss -ulnp | grep -q ":67": a test, so set -e does not apply; one of two
\* lines is logged
ShellCheckDhcpPort ==
  /\ Running /\ pc = "shPortcheck"
  /\ \E r \in CmdResults :
       /\ cmd' = Ran("ss -ulnp | grep", TRUE, r)
       /\ ev' = <<"spawn">> \o (IF r.error \/ r.status # 0
                                 THEN <<"log:portClosed">> ELSE <<"log:portOpen">>)
  /\ pc' = "shQemu"
  /\ req' = NoReq
  /\ done' = NoDone
  /\ opStep' = 6
  /\ UNCHANGED <<variant, cfg, idx, loop, probe, adGuardPort, cookie, thrown, qemu,
                 proc, timer, hist>>

\* exec qemu-system-x86_64: the hypervisor takes the shell's place, or, when it
\* cannot be executed, the shell exits with 126 or 127
ShellExecQemu ==
  /\ Running /\ pc = "shQemu"
  /\ \/ /\ qemu' = "spawned"
        /\ pc' = "shExeced"
        /\ ev' = <<"log:step7", "exec:qemu">>
        /\ UNCHANGED proc
     \/ /\ \E code \in {126, 127} : proc' = [state |-> "exited", code |-> code]
        /\ pc' = "shExit"
        /\ ev' = <<"log:step7", "exec:qemu">>
        /\ UNCHANGED qemu
  /\ req' = NoReq
  /\ done' = NoDone
  /\ cmd' = NoCmd
  /\ opStep' = 7
  /\ UNCHANGED <<variant, cfg, idx, loop, probe, adGuardPort, cookie, thrown, timer,
                 hist>>

ShellNext ==
  \/ ShellEnableDhcp
  \/ ShellRestartAdGuard
  \/ ShellSleep
  \/ ShellCheckDhcpPort
  \/ ShellExecQemu

ShellSpec == ShellInit /\ [][ShellNext]_vars

\* main()'s catch clause runs as soon as the exception reaches it, and the
\* event loop runs every timer that is due
LiveSpec ==
  Spec /\ WF_vars(Catch) /\ WF_vars(TimerElapse) /\ WF_vars(KeepAliveTick)

\* every step of the run is taken once it can be: the synchronous steps run to
\* their end, and the event loop resumes main() after each await
FairSpec == Spec /\ WF_vars(Next)

------------------------------------------------------------------------------
(* Properties *)

InCatch == pc \in {"throwing", "contained"}

CmdFailed == cmd.name # "none" /\ (cmd.result.error \/ cmd.result.status # 0)

RECURSIVE CountIn(_, _)
CountIn(seq, S) ==
  IF seq = <<>> THEN 0
  ELSE (IF Head(seq) \in S THEN 1 ELSE 0) + CountIn(Tail(seq), S)

CommandWarnings == {"log:warnError", "log:warnStatus"}

\* C1: every exception raised inside main()'s try block reaches the catch
\* clause, which logs it and calls keepAlive(); from then on the process stays
\* in the idle state, never exits, and writes the liveness line again and again.
C1_FatalFailureContained ==
  /\ [](pc = "throwing" => <>(pc = "contained"))
  /\ [][pc = "throwing" =>
          (pc' = "contained" /\ ev' = <<"log:error", "log:keepAlive", "setInterval">>)]_vars
  /\ [](pc = "contained" => [](pc = "contained" /\ Running /\ timer # "off"))
  /\ [](pc = "contained" => []<>(ev = <<"log:alive">>))

C1_Witness ==
  pc = "contained" /\ thrown.kind = "DhcpActivationFailed" /\ ev = <<"log:alive">>

\* C2 as claimed: after a command run without allowFail has failed in step k,
\* no command or request of a later step is issued and main() is in no later
\* step.
C2_AsClaimed ==
  hist.cmdFailedStep # NoStep =>
    /\ opStep <= hist.cmdFailedStep
    /\ StepNo(pc) = NoStep \/ StepNo(pc) <= hist.cmdFailedStep

\* C2, amended: the same for every step but step 0, whose ping runs without
\* allowFail inside a try block of its own.  Once such a command has failed
\* the exception is in main()'s catch clause, the last command issued is the
\* failed one, and nothing is issued after the catch clause has run.
C2_FatalCommandHalts ==
  hist.cmdFailedStep \notin {NoStep, 0} =>
    /\ InCatch
    /\ thrown.byCommand /\ thrown.step = hist.cmdFailedStep
    /\ opStep = hist.cmdFailedStep
    /\ qemu = "none"
    /\ pc = "throwing" => CmdFailed /\ ~cmd.allowFail /\ req = NoReq
    /\ pc = "contained" => cmd = NoCmd /\ req = NoReq

C2_Witness ==
  hist.cmdFailedStep = 2 /\ pc = "contained" /\ cmd = NoCmd

\* C3: the process ends with a non-zero code only by passing on the code of a
\* hypervisor that ran and exited.
C3_NeverExitsNonZeroItself ==
  (proc.state = "exited" /\ proc.code # 0) =>
    (qemu = "exited" /\ hist.qemuCode = proc.code)

\* C4: a command run with allowFail that cannot be spawned or exits non-zero
\* makes runCommand return: nothing is thrown, main() is at the next command
\* or step, and runCommand wrote exactly one warning line; a failed ping of
\* step 0 is caught there, logged once, and main() is at the install step.
C4_ToleratedFailure ==
  /\ (CmdFailed /\ cmd.allowFail) =>
       /\ thrown = NoThrow /\ ~InCatch
       /\ pc # cmd.at \/ idx = cmd.idx + 1
       /\ CountIn(ev, CommandWarnings) = 1
  /\ (CmdFailed /\ cmd.name = "ping") =>
       /\ thrown = NoThrow /\ pc = "install"
       /\ CountIn(ev, {"log:noInternet"}) = 1
       /\ CountIn(ev, CommandWarnings \cup {"log:internetOk"}) = 0

C4_Witness ==
  cmd.name = "brctl addbr" /\ cmd.result.error /\ pc = "network" /\ idx = 8

\* C5: withRetries with budget n makes at most n calls; when every call throws
\* it has made n calls and n-1 delays when it throws; when call i returns it
\* returns that value after i calls and i-1 delays, and calls no more.
C5_WithRetries ==
  /\ loop.calls <= loop.attempts
  /\ pc = "withRetries" =>
       /\ loop.attempt <= loop.attempts
       /\ loop.calls = loop.attempt - 1
       /\ loop.delays = loop.calls
  /\ pc = "retriesThrew" =>
       /\ done.outcome = "exhausted" /\ done.loop = loop
       /\ loop.calls = loop.attempts
       /\ loop.delays = loop.attempts - 1
       /\ loop.waited = (loop.attempts - 1) * loop.delayMs
       /\ thrown.kind = "RetriesExhausted"
  /\ pc = "retriesReturned" =>
       /\ done.outcome = "returned" /\ done.loop = loop
       /\ loop.calls = loop.attempt
       /\ loop.delays = loop.calls - 1
       /\ loop.waited = (loop.calls - 1) * loop.delayMs
       /\ done.value = done.fnValue /\ done.value # <<>>
       /\ thrown = NoThrow

C5_Witness ==
  pc = "retriesThrew" /\ loop.attempts = 3 /\ loop.delays = 2

\* C6: enableDhcp posts at most 10 times, 3000 ms apart; the first 2xx answer
\* ends it with no further attempt; it throws only after 10 attempts none of
\* which got a 2xx answer, and then main() is in its catch clause: no restart,
\* no port check, no hypervisor.
C6_EnableDhcp ==
  /\ pc = "cfgDhcp" =>
       /\ loop.attempt <= DhcpAttempts
       /\ loop.calls = loop.attempt - 1
       /\ loop.waited = DhcpDelayMs * loop.calls
       /\ ~hist.dhcpOk
  /\ (done.name = "dhcp" /\ done.outcome = "returned") =>
       /\ done.loop.calls <= DhcpAttempts
       /\ done.loop.waited = DhcpDelayMs * (done.loop.calls - 1)
       /\ hist.dhcpOk /\ pc = "restart2" /\ thrown = NoThrow
  /\ hist.dhcpOk => pc # "cfgDhcp" /\ thrown.kind # "DhcpActivationFailed"
  /\ thrown.kind = "DhcpActivationFailed" =>
       /\ InCatch /\ ~hist.dhcpOk
       /\ loop.calls = DhcpAttempts
       /\ opStep = 5 /\ qemu = "none"
       /\ pc = "contained" => cmd = NoCmd /\ req = NoReq

C6_Witness ==
  thrown.kind = "DhcpActivationFailed" /\ pc = "contained" /\ loop.calls = DhcpAttempts

\* C7: in the dist snapshot, when the first ready answer to the probe of
\* [3000, 80] comes from port 80, waitForAdGuardWeb returns 80 and the
\* first-run configuration request is never sent.
C7_Port80First ==
  (variant = "js" /\ hist.firstAnswer = ConfiguredPort) =>
    /\ hist.probeReturned = ConfiguredPort
    /\ ~hist.configureSent
    /\ pc # "cfgConfigure" /\ pc # "cfgReprobe"
    /\ req.path # "POST /control/install/configure"

C7_Witness ==
  variant = "js" /\ hist.firstAnswer = ConfiguredPort /\ hist.dhcpOk /\ pc = "returned"

\* C8: the first-run configuration is sent only after port 3000 answered the
\* probe; the cycle is not given up for want of an answer before port 80 has
\* been probed; and after a successful first-run configuration no login is
\* sent before the re-probe of port 80 was answered.
C8_ConfigureIfFirstRun ==
  /\ hist.configureSent => hist.firstAnswer = UnconfiguredPort
  /\ (pc = "throwing" /\ thrown.kind \in {"PollTimeout", "ControlPlaneUnreachable"}) =>
       req.port = ConfiguredPort
  /\ (hist.configureOk /\ (pc = "cfgLogin" \/ hist.loginSent)) => hist.reprobeOk

\* C9: a failed interface read, by status or by a thrown request, does not end
\* the cycle: main() goes on to enableDhcp.
C9_InterfacesNonFatal ==
  hist.interfaces \in {"status", "thrown"} =>
    /\ thrown.kind # "TransportError"
    /\ pc = "cfgDhcp" \/ hist.dhcpSent

\* C10: login is retried while it yields no cookie, with a delay before each
\* retry and 10 requests at most; the first call that yields a cookie ends it
\* with that cookie; after 10 calls without one the failure is in main()'s catch
\* clause and neither the interface read nor a DHCP request is ever sent.
C10_Authenticate ==
  /\ pc = "cfgLogin" =>
       /\ loop.attempt <= LoginAttempts
       /\ loop.calls = loop.attempt - 1
       /\ loop.delays = loop.calls /\ loop.waited = LoginDelayMs * loop.calls
       /\ cookie = <<>>
  /\ (done.name = "login" /\ done.outcome = "returned") =>
       /\ done.loop.calls <= LoginAttempts
       /\ cookie = done.fnValue /\ cookie # <<>>
       /\ pc = "cfgInterfaces" /\ thrown = NoThrow
  /\ cookie # <<>> => pc \in {"cfgInterfaces", "cfgDhcp", "throwing", "contained"}
  /\ thrown.kind = "AuthenticationFailed" =>
       /\ InCatch /\ cookie = <<>>
       /\ loop.calls = LoginAttempts /\ loop.delays = LoginAttempts - 1
       /\ hist.interfaces = "none" /\ ~hist.dhcpSent
       /\ opStep = 5 /\ qemu = "none"
       /\ pc = "contained" => cmd = NoCmd /\ req = NoReq

C10_Witness ==
  thrown.kind = "AuthenticationFailed" /\ pc = "contained"

AfterLoginCalls == {"GET /control/dhcp/interfaces", "POST /control/dhcp/set_config"}

\* C11: in a configuration cycle the interface read and every DHCP attempt
\* carry the cookie the successful login returned; the cookie held is not
\* replaced while the cycle runs, and once it is held no login request is sent.
C11_SingleSessionCookie ==
  /\ [][(done'.name = "login" /\ done'.outcome = "returned") =>
          (cookie' = done'.fnValue /\ cookie' # <<>>)]_vars
  /\ [][req'.path \in AfterLoginCalls =>
          (cookie # <<>> /\ req'.cookie = cookie)]_vars
  /\ [][cookie # <<>> =>
          /\ req'.path # "POST /control/login"
          /\ cookie' = cookie \/ (cookie' = <<>> /\ pc = "cfgDhcp" /\ pc' = "restart2")]_vars

C11_Witness ==
  /\ req.path = "POST /control/dhcp/set_config" /\ req.cookie = <<"sid=2">>
  /\ cookie = <<"sid=2">> /\ pc = "cfgDhcp" /\ loop.calls = 3

\* the state of the configuration cycle a position of configureAdGuardHome is
\* in: 1 PROBE_PORT, 2 CONFIGURE_IF_FIRST_RUN, 3 AUTHENTICATE, 4 READ_INTERFACES,
\* 5 ENABLE_DHCP, 6 DONE (configureAdGuardHome has returned); 0 outside the cycle
CycleRank(p) ==
  CASE p \in {"cfgStart", "cfgProbe"} -> 1
    [] p \in {"cfgConfigure", "cfgReprobe"} -> 2
    [] p = "cfgLogin" -> 3
    [] p = "cfgInterfaces" -> 4
    [] p = "cfgDhcp" -> 5
    [] p = "restart2" -> 6
    [] OTHER -> 0

\* C12: the cycle is entered at PROBE_PORT, each move stays in the state or
\* goes to the next one (PROBE_PORT may go straight to AUTHENTICATE), a failure
\* leaves the cycle for the catch clause, each request is sent in its own
\* state, and DONE is entered from ENABLE_DHCP only, by an attempt answered 2xx.
C12_CycleOrder ==
  /\ [][(CycleRank(pc) = 0 /\ CycleRank(pc') \in 1..5) =>
          (pc = "wait1" /\ pc' = "cfgStart")]_vars
  /\ [][CycleRank(pc) \in 1..5 =>
          \/ CycleRank(pc') \in {CycleRank(pc), CycleRank(pc) + 1}
          \/ CycleRank(pc) = 1 /\ CycleRank(pc') = 3
          \/ pc' = "throwing"]_vars
  /\ [][CycleRank(pc) = 6 => CycleRank(pc') \in {0, 6}]_vars
  /\ [][(pc' = "restart2" /\ pc # "restart2") =>
          /\ pc = "cfgDhcp" /\ req'.path = "POST /control/dhcp/set_config"
          /\ hist'.dhcpOk /\ hist.loginSent /\ hist.interfaces \in {"ok", "status"}]_vars
  /\ [][/\ req'.path = "POST /control/install/configure" => CycleRank(pc) = 2
        /\ req'.path = "POST /control/login" => CycleRank(pc) = 3
        /\ req'.path = "GET /control/dhcp/interfaces" => CycleRank(pc) = 4
        /\ req'.path = "POST /control/dhcp/set_config" => CycleRank(pc) = 5]_vars

C12_Witness ==
  /\ pc = "restart2" /\ done.name = "dhcp" /\ done.outcome = "returned"
  /\ hist.configureSent /\ hist.dhcpOk /\ done.loop.calls = 2

ProbeLogLines == {"log:probeNoAnswer", "log:probeStatus"}

\* C13: waitForAdGuardHome(url, n, delay) makes at most n probes; a probe
\* answered 2xx or 4xx makes it return at once, with no delay after it; a probe
\* that throws or gets any other status is logged once and followed by one
\* delay; it throws exactly when n probes were not ready.
C13_WaitForAdGuardHome ==
  /\ loop.calls <= loop.attempts
  /\ pc = "waitForAdGuardHome" =>
       /\ loop.calls = loop.attempt - 1 /\ loop.calls < loop.attempts
       /\ loop.delays = loop.calls
       /\ loop.waited = loop.calls * loop.delayMs
       /\ thrown = NoThrow
  /\ done.name = "probe" =>
       LET r     == done.fnValue
           ready == ~r.thrown /\ ((r.status >= 200 /\ r.status <= 299) \/
                                  (r.status >= 400 /\ r.status <= 499))
       IN
       /\ done.loop = loop
       /\ ready <=> done.outcome = "returned"
       /\ ready <=> pc = "pollReturned"
       /\ ready =>
            /\ loop.delays = loop.calls - 1
            /\ CountIn(ev, {"wait"}) = 0
            /\ thrown = NoThrow
       /\ ~ready =>
            /\ CountIn(ev, ProbeLogLines) = 1
            /\ ev[Len(ev)] = "wait" /\ CountIn(ev, {"wait"}) = 1
            /\ loop.delays = loop.calls
       /\ (~ready /\ loop.calls = loop.attempts) <=> pc = "pollThrew"
       /\ pc = "pollThrew" => done.outcome = "exhausted" /\ thrown.kind = "PollTimeout"

C13_Witness ==
  /\ pc = "pollReturned" /\ done.fnValue.status = 404
  /\ loop.attempts = 4 /\ loop.calls = 3 /\ loop.delays = 2

\* C14: the first probe of the dist snapshot polls port 3000, then port 80,
\* each at most 30 times; it goes to port 80 only when 30 polls of port 3000
\* were not ready, and when 30 polls of port 80 were not ready either it throws
\* ControlPlaneUnreachable to main()'s catch clause, no configure, login,
\* interface or DHCP request having been sent.
C14_ControlPlaneUnreachable ==
  /\ (pc = "cfgProbe" /\ probe.web) =>
       /\ probe.ports \in { <<UnconfiguredPort, ConfiguredPort>>, <<ConfiguredPort>> }
       /\ loop.attempts = ConfigureProbeAttempts
       /\ loop.calls = loop.attempt - 1 /\ loop.calls < ConfigureProbeAttempts
       /\ ~hist.configureSent /\ ~hist.loginSent /\ ~hist.dhcpSent
       /\ hist.interfaces = "none"
       /\ req.path = "GET /" =>
            req.port = IF loop.calls = 0 THEN UnconfiguredPort ELSE Head(probe.ports)
       /\ (probe.ports = <<ConfiguredPort>> /\ loop.calls = 0) =>
            /\ done.name = "probe" /\ done.outcome = "exhausted"
            /\ done.loop.calls = ConfigureProbeAttempts
  /\ (done.name = "probe" /\ done.outcome = "exhausted" /\ probe.web) =>
       \/ pc = "throwing" /\ thrown.kind = "ControlPlaneUnreachable"
             /\ Len(probe.ports) = 1
       \/ pc = "cfgProbe" /\ loop.calls = 0
  /\ (thrown.kind = "ControlPlaneUnreachable" /\ thrown.step = 5
        /\ hist.firstAnswer = 0) =>
       /\ InCatch /\ variant = "js"
       /\ probe.ports = <<ConfiguredPort>>
       /\ loop.calls = ConfigureProbeAttempts
       /\ ~hist.configureSent /\ ~hist.loginSent /\ ~hist.dhcpSent
       /\ hist.interfaces = "none"
       /\ opStep = 5 /\ qemu = "none"
       /\ pc = "throwing" => (req.path = "GET /" /\ req.port = ConfiguredPort)
       /\ pc = "contained" => (req = NoReq /\ cmd = NoCmd)

C14_Witness ==
  /\ thrown.kind = "ControlPlaneUnreachable" /\ thrown.step = 5
  /\ hist.firstAnswer = 0 /\ pc = "contained"

\* the position each step of main() starts at, and the positions a step can be
\* left from for the next step
StepEntries ==
  << "install", "network", "bounce", "restart1", "cfgStart", "restart2", "portcheck",
     "qemuPrep" >>

StepExits ==
  {"step0", "install", "install2", "network", "bounce", "wait1", "cfgDhcp", "wait2",
   "portcheck"}

\* C15: main() is at one position at a time; the step it is in changes only to
\* the next step in the order 0..8, entered at its start, from the end of the
\* step before (last command run, loop finished, delay slept); every command
\* and request issued belongs to the step main() is in; a step once left, the
\* configuration cycle included, is never entered again.
C15_SequentialSteps ==
  /\ [][(StepNo(pc') # StepNo(pc) /\ StepNo(pc') # NoStep) =>
          /\ StepNo(pc) # NoStep
          /\ StepNo(pc') = StepNo(pc) + 1
          /\ pc' = StepEntries[StepNo(pc')]
          /\ pc \in StepExits
          /\ pc = "network" => idx = Len(NetworkCommands)
          /\ pc = "bounce" => idx = 2 * Len(BounceTargets)
          /\ pc = "cfgDhcp" => (done'.name = "dhcp" /\ done'.outcome = "returned")
          /\ idx' = 1 /\ loop' = NoLoop /\ thrown' = NoThrow]_vars
  /\ [][StepNo(pc) = NoStep => StepNo(pc') = NoStep]_vars
  /\ [][(cmd' # NoCmd \/ req' # NoReq) =>
          (StepNo(pc) # NoStep /\ opStep' = StepNo(pc))]_vars
  /\ [][pc' = "cfgStart" => (pc = "wait1" /\ ~hist.loginSent /\ ~hist.dhcpSent)]_vars

C15_Witness ==
  /\ pc = "qemuSpawn" /\ hist.dhcpOk /\ hist.configureSent /\ cfg.restartAdGuard
  /\ cfg.installAdGuard /\ cfg.checkInternet /\ opStep = 8

\* C16: when startQemu finds the guest image missing it throws to main()'s
\* catch clause without calling spawn; spawn is called only with QEMU enabled,
\* after cloud-localds built the seed image and the guest image was found.
C16_MissingGuestImage ==
  /\ hist.image = "missing" =>
       /\ thrown.kind = "MissingGuestImage" /\ thrown.step = 8 /\ InCatch
       /\ qemu = "none" /\ CountIn(ev, {"spawn:qemu"}) = 0
       /\ Running
  /\ thrown.kind = "MissingGuestImage" => hist.image = "missing"
  /\ (qemu # "none" \/ CountIn(ev, {"spawn:qemu"}) > 0) =>
       /\ cfg.enableQemu /\ hist.seedBuilt /\ hist.image = "present"
       /\ hist.cmdFailedStep \in {NoStep, 0}
  /\ pc = "qemuSpawn" => hist.seedBuilt /\ hist.image = "unchecked" /\ qemu = "none"

C16_Witness ==
  hist.image = "missing" /\ pc = "contained" /\ hist.seedBuilt /\ timer = "due"

\* C17: once the hypervisor has exited, the process has exited with the
\* hypervisor's exit code, and with 0 only if the hypervisor exited with 0.
C17_ExitCodeForwarded ==
  qemu = "exited" =>
    /\ proc.state = "exited"
    /\ hist.qemuCode # NoCode => proc.code = hist.qemuCode
    /\ proc.code = 0 => hist.qemuCode = 0

\* the end-to-end scenario: install, restart and QEMU skipped, no fatal
\* command failure, and a control plane that so far has answered as the mock
Scenario ==
  /\ ~cfg.installAdGuard /\ ~cfg.restartAdGuard /\ ~cfg.enableQemu
  /\ hist.mock
  /\ hist.cmdFailedStep \in {NoStep, 0} /\ ~thrown.byCommand

StepHeaders ==
  {"log:step0", "log:step1", "log:step2", "log:step3", "log:step5", "log:step6",
   "log:step7"}

\* C18: in the end-to-end scenario main() never reaches its catch clause, the
\* configuration cycle ends with one login request and one DHCP request, the
\* first-run configuration is not sent, and the step headers written are those
\* of steps 0, 2, 3, 5 and 6, each when its step starts.
C18_EndToEnd ==
  Scenario =>
    /\ ~InCatch /\ thrown = NoThrow
    /\ ~hist.configureSent
    /\ pc \in {"cfgLogin", "cfgDhcp"} => loop.calls = 0
    /\ done.name \in {"login", "dhcp"} =>
         (done.outcome = "returned" /\ done.loop.calls = 1)
    /\ pc \in {"restart2", "wait2", "portcheck", "qemuPrep", "returned"} =>
         (hist.loginSent /\ hist.interfaces = "ok" /\ hist.dhcpOk)
    /\ CountIn(ev, {"log:step1", "log:step7"}) = 0
    /\ CountIn(ev, StepHeaders) <= 1
    /\ pc = "install" => ev[1] = "log:step0"
    /\ (pc = "network" /\ idx = 2) => ev[1] = "log:step2"
    /\ (pc = "bounce" /\ idx = 2) => ev[1] = "log:step3"
    /\ (pc = "cfgProbe" /\ req = NoReq) => ev = <<"log:step5">>
    /\ done.name = "dhcp" => ev[1] = "log:step6"

\* C19: whatever the ping of step 0 does, main() goes on to the install step
\* with nothing thrown, having logged the outcome once; whatever "ss -ulnp"
\* does, checkDhcpPort returns, main() goes on to startQemu with nothing
\* thrown, and the check's verdict is logged once.
C19_BestEffortSteps ==
  /\ cmd.name = "ping" =>
       /\ pc = "install" /\ thrown = NoThrow /\ Running
       /\ CountIn(ev, {"log:noInternet", "log:internetOk"}) = 1
       /\ CmdFailed <=> CountIn(ev, {"log:noInternet"}) = 1
  /\ cmd.name = "ss -ulnp" =>
       /\ pc = "qemuPrep" /\ thrown = NoThrow /\ Running
       /\ CountIn(ev, {"log:dhcpListening", "log:dhcpNotListening"}) = 1
       /\ CmdFailed <=> CountIn(ev, CommandWarnings) = 1
  /\ pc = "install" => (cfg.checkInternet <=> cmd.name = "ping")
  /\ pc = "qemuPrep" => cmd.name = "ss -ulnp"

C19_Witness ==
  /\ cmd.name = "ss -ulnp" /\ cmd.result.error /\ pc = "qemuPrep"
  /\ hist.cmdFailedStep = 0

\* the position of the one occurrence of x in seq
Pos(seq, x) == CHOOSE i \in 1..Len(seq) : seq[i] = x

\* C20 as claimed: each runCommand call writes one log line in all, the
\* command line, before the child is started, whatever the outcome.
C20_AsClaimed ==
  cmd.name # "none" =>
    /\ CountIn(ev, {"log:command"} \cup CommandWarnings) = 1
    /\ CountIn(ev, {"log:command"}) = 1 /\ CountIn(ev, {"spawn"}) = 1
    /\ Pos(ev, "log:command") < Pos(ev, "spawn")

\* C20, amended: each runCommand call writes the command line once, right
\* before the child is started, whatever the outcome; a failure tolerated by
\* allowFail adds one warning line after the child has ended; success and a
\* fatal failure add no line of runCommand's.
C20_CommandLogged ==
  cmd.name # "none" =>
    /\ CountIn(ev, {"log:command"}) = 1 /\ CountIn(ev, {"spawn"}) = 1
    /\ Pos(ev, "log:command") + 1 = Pos(ev, "spawn")
    /\ CountIn(ev, CommandWarnings) = IF CmdFailed /\ cmd.allowFail THEN 1 ELSE 0
    /\ (CmdFailed /\ cmd.allowFail) =>
         /\ ev[Pos(ev, "spawn") + 1] \in CommandWarnings
         /\ cmd.result.error <=> CountIn(ev, {"log:warnError"}) = 1
    /\ (CmdFailed /\ ~cmd.allowFail /\ cmd.name # "ping") =>
         (pc = "throwing" /\ ev[Len(ev)] = "spawn")

C20_Witness ==
  /\ cmd.name = "ip link set veth-tap up" /\ cmd.result.error /\ pc = "throwing"
  /\ ev = <<"log:command", "spawn">>

-------------------------------------------------------------------------------
(* The boot-artifact builder                                                 *)

UserDataWritten == done.name = "runcmd"

\* the command list CLOUDINIT_COMMANDS yields is empty: the variable is set to
\* the empty string, or to separators and blanks only
EmptyCommandList ==
  /\ cfg.commandsEnv.set
  /\ \A i \in 1..Len(cfg.commandsEnv.value) :
       cfg.commandsEnv.value[i] \in {Semicolon, Space}

\* C21: when the configured first-boot command list is empty (CLOUDINIT_COMMANDS
\* set to an empty string or to separators only), the runcmd section written
\* is the default self-check list, the one written when no list is supplied
C21_EmptyListGivesDefault ==
  (UserDataWritten /\ EmptyCommandList)
    => done.value = RenderedCommands(DefaultCloudInitCommands)

\* what a reader of a double-quoted scalar gets from the text between the
\* quotes: ok is FALSE when the text ends the scalar early (a bare double
\* quote), leaves it open (a trailing backslash) or holds an unknown escape;
\* text is the un-escaped content
Bell == "BEL"

RECURSIVE Unescape(_)
Unescape(s) ==
  IF s = <<>> THEN [ok |-> TRUE, text |-> <<>>]
  ELSE IF Head(s) = Quote THEN [ok |-> FALSE, text |-> <<>>]
  ELSE IF Head(s) = Backslash
    THEN IF Len(s) = 1 THEN [ok |-> FALSE, text |-> <<>>]
         ELSE LET rest == Unescape(SubSeq(s, 3, Len(s)))
                  c    == s[2]
              IN  [ok   |-> rest.ok /\ c \in {Quote, Backslash, Space, "a"},
                   text |-> << IF c = "a" THEN Bell ELSE c >> \o rest.text]
  ELSE LET rest == Unescape(Tail(s))
       IN  [ok |-> rest.ok, text |-> << Head(s) >> \o rest.text]

\* C22: every rendered runcmd entry is a well-formed double-quoted string whose
\* un-escaping gives back the command it was rendered from, for commands with
\* double quotes and with backslashes alike
C22_EntriesRoundTrip ==
  UserDataWritten =>
    /\ Len(done.value) = Len(CommandLines(cfg.commands))
    /\ \A i \in 1..Len(done.value) :
         /\ Unescape(done.value[i]).ok
         /\ Unescape(done.value[i]).text = CommandLines(cfg.commands)[i]

-------------------------------------------------------------------------------
(* The step toggles                                                          *)

InstallCommands == {"install.sh", "AdGuardHome -s start"}
RestartCommands == {"AdGuardHome -s restart", "./AdGuardHome"}

\* what a skipped step leaves behind: no command, no request, and nothing of
\* the run's state touched except the position and the skip notice
SkippedTo(next) ==
  /\ pc' = next
  /\ cmd' = NoCmd /\ req' = NoReq
  /\ "spawn" \notin {ev'[i] : i \in 1..Len(ev')}
  /\ UNCHANGED <<cfg, loop, probe, adGuardPort, cookie, thrown, qemu, proc, timer,
                 opStep, hist>>

\* C23: a step disabled by its flag issues no command and no HTTP call and
\* leaves the rest of the run as it was: no install command with install
\* disabled, no restart command at either position with restart disabled, no
\* seed image and no hypervisor with QEMU disabled; the settle delays after
\* both restart positions are taken whether or not restart is disabled
C23_DisabledStepsAreSkipped ==
  [][ /\ (pc = "step0" /\ ~cfg.checkInternet) => (cmd' = NoCmd /\ pc' = "install")
      /\ (pc = "install" /\ ~cfg.installAdGuard) => SkippedTo("network")
      /\ (pc = "restart1" /\ ~cfg.restartAdGuard) => SkippedTo("wait1")
      /\ (pc = "restart2" /\ ~cfg.restartAdGuard) => SkippedTo("wait2")
      /\ (pc = "qemuPrep" /\ ~cfg.enableQemu) => SkippedTo("returned")
      /\ ~cfg.installAdGuard => cmd'.name \notin InstallCommands
      /\ ~cfg.restartAdGuard => cmd'.name \notin RestartCommands
      /\ ~cfg.enableQemu => (cmd'.name # "cloud-localds" /\ qemu' = "none"
                             /\ ~hist'.seedBuilt)
      /\ (pc \in {"wait1", "wait2"} /\ pc' # pc) => ev' = <<"wait">>
      /\ (pc' = "cfgStart" /\ pc # pc') => pc = "wait1"
      /\ (pc' = "portcheck" /\ pc # pc') => pc = "wait2"
      /\ (pc \in {"restart1", "restart1probe"} /\ pc' \in {"wait1", "wait2"})
           => pc' = "wait1"
      /\ (pc \in {"restart2", "restart2probe"} /\ pc' \in {"wait1", "wait2"})
           => pc' = "wait2"
    ]_vars

\* a run with install, restart and QEMU disabled that went through every step
\* and has just skipped the guest launch
C23_Witness ==
  /\ ~cfg.installAdGuard /\ ~cfg.restartAdGuard /\ ~cfg.enableQemu
  /\ pc = "returned" /\ ev = <<"log:skip">> /\ hist.dhcpOk

-------------------------------------------------------------------------------
(* Termination                                                               *)

\* the run is over: configuration finished with the guest launch skipped, the
\* hypervisor launched and awaited, the containment idle state, or the process
\* gone
RunEnded ==
  \/ pc = "returned" /\ ~cfg.enableQemu
  \/ qemu = "spawned"
  \/ pc = "contained"
  \/ proc.state = "exited"

\* C24: every run eventually reaches a terminal situation, no step hangs: in
\* particular the appliance (re)start step returns even when the appliance
\* process it started keeps running
C24_EveryRunEnds == <>RunEnded

-------------------------------------------------------------------------------
(* The first (re)start on a first run                                        *)

\* the first (re)start step ended in a failure that is not a command's
FirstRestartFatal ==
  pc = "throwing" /\ thrown.step = 4 /\ ~thrown.byCommand

\* C25: with the (re)start step enabled and the appliance on its first run
\* (port 80 refuses until the first-run configuration is done), the first
\* (re)start step completes without a fatal failure, so that the pipeline goes
\* on to the configuration cycle
C25_FirstRunRestartCompletes ==
  (cfg.restartAdGuard /\ hist.firstRun) => ~FirstRestartFatal

-------------------------------------------------------------------------------
(* Network construction and the interface bounce                             *)

\* the eight commands of the bounce, as the claim lists them
BounceSequence ==
  << "ip link set host down",     "ip link set host up",
     "ip link set veth-tap down", "ip link set veth-tap up",
     "ip link set tap down",      "ip link set tap up",
     "ip link set bridge down",   "ip link set bridge up" >>

\* C26: the interface bounce issues, for host link, peer link, tap and bridge in
\* turn, "down" immediately followed by "up" for the same interface; no outcome
\* of any of the eight commands aborts the pipeline, and the step is left only
\* after the last "up"
C26_InterfaceBounce ==
  [][ /\ (pc' = "bounce" /\ pc # "bounce") => idx' = 1
      /\ pc = "bounce" =>
           /\ idx \in 1..Len(BounceSequence)
           /\ cmd'.name = BounceSequence[idx]
           /\ thrown' = thrown /\ proc' = proc
           /\ IF idx = Len(BounceSequence)
              THEN pc' = "restart1"
              ELSE pc' = "bounce" /\ idx' = idx + 1
    ]_vars

\* the last command of the bounce could not even be started, and the pipeline
\* is at the (re)start step
C26_Witness ==
  /\ pc = "restart1" /\ cmd.name = "ip link set bridge up" /\ cmd.result.error

\* the commands of network construction that bring an interface up
UpCommands ==
  { "ip link set host up", "ip link set veth-tap up", "ip link set tap up",
    "ip link set bridge up" }

\* C27: network construction can be repeated: a creation command (add veth
\* pair, add address, add tap, add bridge, attach to bridge) that fails does not
\* stop the step; only a failure to bring host link, peer link, tap or bridge up
\* is fatal, and after it no further command is issued
C27_NetworkConstruction ==
  [][ /\ pc = "network" =>
           LET failed == cmd'.result.error \/ cmd'.result.status # 0 IN
           /\ cmd'.name # "none"
           /\ (cmd'.name \notin UpCommands) => pc' \in {"network", "bounce"}
           /\ (cmd'.name \in UpCommands /\ failed) => pc' = "throwing"
           /\ (cmd'.name \in UpCommands /\ ~failed) => pc' \in {"network", "bounce"}
      /\ pc = "throwing" => cmd'.name = "none"
      /\ pc = "contained" => cmd'.name = "none"
    ]_vars

\* the last creation command failed with a non-zero status and the step is
\* complete: the pipeline is at the interface bounce
C27_Witness ==
  /\ pc = "bounce" /\ idx = 1
  /\ cmd.name = "ip addr add bridge" /\ ~cmd.result.error /\ cmd.result.status = 1

-------------------------------------------------------------------------------
(* The shell-script entrypoint                                               *)

Success2xx(code) == code \in {"200"}

EvHas(e) == \E i \in 1..Len(ev') : ev'[i] = e

\* C28: in the shell-script entrypoint the DHCP loop reports DHCP enabled only
\* after an attempt that returned a 2xx status, leaves the loop for the restart
\* and the guest launch only after such an attempt, and sleeps 3 seconds after
\* every failed attempt that is followed by another
C28_ShellDhcpLoop ==
  [][ pc = "shDhcp" =>
        LET code == done'.value[1] IN
        /\ EvHas("log:dhcpEnabled") => Success2xx(code)
        /\ pc' = "shRestart" => Success2xx(code)
        /\ (pc' = "shDhcp" /\ ~Success2xx(code)) => EvHas("sleep:3")
    ]_vars

-------------------------------------------------------------------------------
(* The guest launch                                                          *)

\* spawn() of the hypervisor has been called
HypervisorSpawned == qemu # "none"

\* C29: the hypervisor is spawned only after, in the same run, the port probe
\* succeeded, a session cookie was obtained and a DHCP activation attempt was
\* answered 2xx
C29_LaunchOnlyAfterConfiguration ==
  (HypervisorSpawned \/ pc \in {"qemuPrep", "qemuSpawn"}) =>
    /\ hist.firstAnswer \in {UnconfiguredPort, ConfiguredPort}
    /\ hist.loginOk
    /\ hist.dhcpOk

\* the hypervisor runs, after a configuration cycle in which some request had
\* to be repeated
C29_Witness ==
  /\ qemu = "spawned" /\ hist.dhcpOk /\ hist.loginOk /\ ~hist.mock

\* C30: containment and a hypervisor are mutually exclusive: once the
\* hypervisor has been spawned the run cannot throw into the catch clause or
\* enter keepAlive; once keepAlive has been entered no hypervisor is spawned,
\* the process does not exit, and keepAlive is not entered again
C30_ContainmentExcludesHypervisor ==
  [][ /\ ~(pc' \in {"throwing", "contained"} /\ qemu' # "none")
      /\ HypervisorSpawned => (pc' = "returned" /\ timer' = "off")
      /\ pc = "contained" =>
           /\ pc' = "contained" /\ qemu' = "none"
           /\ proc' = proc /\ proc.state = "running"
           /\ timer' # "off"
           /\ \A i \in 1..Len(ev') : ev'[i] \notin {"setInterval", "log:keepAlive"}
      /\ (pc' = "contained" /\ pc # "contained") =>
           (pc = "throwing" /\ timer = "off" /\ qemu = "none")
    ]_vars

\* the guest image is missing: the run is contained at the launch step, no
\* hypervisor exists, and the interval has come due
C30_Witness ==
  /\ pc = "contained" /\ thrown.kind = "MissingGuestImage" /\ timer = "due"
  /\ qemu = "none" /\ proc.state = "running"

====
